---- MODULE Spec2Model ----
(***************************************************************************)
(* The chat gateway of backend/server.js with its provider adapters        *)
(* (openaiService.js, claudeService.js incl. the Grok adapter,             *)
(* geminiService.js) and attachment helpers (fileUtils.js).                *)
(*                                                                         *)
(* A request handler is an async function: it runs without interruption    *)
(* between two awaits, so every action below is one such run of one        *)
(* request (from the point where an awaited call returns to the next       *)
(* await), and the requests in flight interleave at those points only.     *)
(* Texts are sequences of tokens; "" as a string and <<>> as a text are    *)
(* the falsy values of the JavaScript code.                                *)
(***************************************************************************)
EXTENDS Integers, Sequences, FiniteSets, TLC

\* ---------------------------------------------------------------- bounds
MaxRequests == 2   \* requests started in one run of the server
MaxInFlight == 1   \* requests in flight at the same time
MaxChunks == 2     \* content deltas a provider sends in one reply

\* ------------------------------------------------- program constants
FreeChatLimit == 3
FreeMessageLimit == 20

\* ------------------------------------------------------- input sets
Users == {"u1", "u2"}
Sessions == {"s1", "s2"}
OldChats == {"old1", "old2", "old3"}   \* rows of conversations of an earlier run
ChatIds == Sessions \cup OldChats
Slots == 1..MaxInFlight
ArrayIds == 1..MaxRequests

NoModel == ""
ModelIds == {"gpt-3.5-turbo", "GPT-4", "claude-3-opus", "grok-2", "gemini-pro",
             "deepseek-chat"}

\* An uploaded file: size in MiB (the upload middleware admits at most 10 MiB),
\* onDisk: whether the stored file is still there when the handler looks.
TextDoc == [name |-> "notes.txt", mimetype |-> "text/plain", size |-> 1, onDisk |-> TRUE]
Image == [name |-> "cat.png", mimetype |-> "image/png", size |-> 1, onDisk |-> TRUE]
LostImage == [name |-> "gone.png", mimetype |-> "image/png", size |-> 1, onDisk |-> FALSE]
LostDoc == [name |-> "lost.txt", mimetype |-> "text/plain", size |-> 1, onDisk |-> FALSE]

AuthHeaders == {"", "Bearer", "Bearer bad", "Bearer u1", "Bearer u2"}
ValidAuth == {"Bearer u1", "Bearer u2"}

\* What a chat request carries: message, files, model. The subscription matters
\* to the gates and the attachments to the steps behind them, so the subscriber u2
\* sends text only; documents do not depend on the model, and images are tried
\* with one model of each adapter.
TextPayloads ==
  {[message |-> <<"hi">>, files |-> <<>>, model |-> m] : m \in ModelIds \cup {NoModel}}
FilePayloads ==
  {[message |-> <<"hi">>, files |-> <<TextDoc>>, model |-> m] : m \in {NoModel, "GPT-4"}}
  \cup {[message |-> <<"hi">>, files |-> <<LostDoc>>, model |-> NoModel]}
  \cup {[message |-> <<>>, files |-> <<Image>>, model |-> m] :
          m \in {"gpt-3.5-turbo", "claude-3-opus", "grok-2", "gemini-pro"}}
  \cup {[message |-> <<"hi">>, files |-> <<LostImage>>, model |-> m] :
          m \in {"gpt-3.5-turbo", "gemini-pro"}}

Input(kind, sessionId, auth, p) ==
  [kind |-> kind, sessionId |-> sessionId, auth |-> auth, message |-> p.message,
   files |-> p.files, model |-> p.model]
Plain == [message |-> <<"hi">>, files |-> <<>>, model |-> NoModel]
Empty == [message |-> <<>>, files |-> <<>>, model |-> NoModel]
Blank == [message |-> <<" ">>, files |-> <<>>, model |-> NoModel]

\* The requests of a run. s1 sees every payload; the second session s2 sees plain
\* turns and deletes.
RequestInputs ==
  {Input(k, "s1", a, p) : k \in {"chat", "stream"}, a \in ValidAuth, p \in TextPayloads}
  \cup {Input(k, "s1", "Bearer u1", p) : k \in {"chat", "stream"}, p \in FilePayloads}
  \cup {Input(k, "s1", a, Plain) : k \in {"chat", "stream"}, a \in AuthHeaders \ ValidAuth}
  \cup {Input(k, "s1", "Bearer u1", p) : k \in {"chat", "stream"}, p \in {Empty, Blank}}
  \cup {Input("delete", "s1", a, Empty) : a \in AuthHeaders}
  \cup {Input(k, "s2", a, Plain) : k \in {"chat", "stream"}, a \in ValidAuth}
  \cup {Input("delete", "s2", a, Empty) : a \in ValidAuth}

\* ------------------------------------------------------------ strings
\* String.prototype.toLowerCase on the model ids in use.
toLowerCase(s) ==
  CASE s = "GPT-4" -> "gpt-4"
    [] OTHER -> s

\* String.prototype.includes(marker) on the model ids in use (case-sensitive).
includes(s, marker) ==
  CASE marker = "gpt-4" -> s \in {"gpt-4"}
    [] marker = "claude" -> s \in {"claude-3-opus"}
    [] marker = "grok" -> s \in {"grok-2"}
    [] marker = "deepseek" -> s \in {"deepseek-chat"}
    [] marker = "gemini" -> s \in {"gemini-pro"}
    [] marker = "-202" -> s \in {"claude-3-5-sonnet-20240620", "claude-3-7-sonnet-20250219",
                                 "claude-3-opus-20240229", "claude-3-5-haiku-20240307",
                                 "claude-4-20250514"}
    [] OTHER -> FALSE

IsWhitespace(tok) == tok \in {" ", "\n", "\n\n"}

RECURSIVE trimStart(_)
trimStart(t) ==
  IF t # <<>> /\ IsWhitespace(Head(t)) THEN trimStart(Tail(t)) ELSE t

RECURSIVE trimEnd(_)
trimEnd(t) ==
  IF t # <<>> /\ IsWhitespace(t[Len(t)]) THEN trimEnd(SubSeq(t, 1, Len(t) - 1)) ELSE t

\* String.prototype.trim
trim(t) == trimEnd(trimStart(t))

\* Array.prototype.join(sep) on texts
RECURSIVE join(_, _)
join(ss, sep) ==
  IF ss = <<>> THEN <<>>
  ELSE IF Len(ss) = 1 THEN Head(ss)
  ELSE Head(ss) \o sep \o join(Tail(ss), sep)

\* ------------------------------------------------------------ messages
SystemPrompt == <<"You are PantherAI, a helpful assistant.">>
StreamSystemPrompt == <<"You are PantherAI, a helpful assistant that can analyze various types of documents and images to help users.">>
DefaultModel == "gpt-3.5-turbo"

Msg(role, content) == [role |-> role, content |-> content, images |-> <<>>]
ImageMsg(promptText, parts) == [role |-> "user", content |-> promptText, images |-> parts]

\* ----------------------------------------------------------- durable rows
NoRow == [present |-> FALSE, user_id |-> "", messages |-> <<>>, message_count |-> 0]
Row(u, msgs, n) == [present |-> TRUE, user_id |-> u, messages |-> msgs, message_count |-> n]
NoChat == [found |-> FALSE, messages |-> <<>>, message_count |-> 0]
NoFiles == [has |-> FALSE, list |-> <<>>]

\* A row as the server's own turns build it: two messages and one count per turn.
RECURSIVE TurnMessages(_)
TurnMessages(n) ==
  IF n = 0 THEN <<>>
  ELSE TurnMessages(n - 1) \o <<Msg("user", <<"hi">>), Msg("assistant", <<"a">>)>>

PriorRow(u, n) == Row(u, TurnMessages(n), n)

\* --------------------------------------------------------------- state
VARIABLES
  users,              \* durable table users: is_subscribed, stripe_subscription_id
  chats,              \* durable table chats, one row per id
  apiKey,             \* the provider credentials of the process environment
  sessionFiles,       \* Map sessionId -> list of recorded files
  userConversations,  \* Map sessionId -> the history array (its identity), 0: no entry
  userSelectedModel,  \* Map sessionId -> model id, NoModel: no entry
  heap,               \* the history arrays, by identity
  req,                \* the requests in flight: inputs, locals and position
  wire,               \* what each request has written to its response
  started             \* requests started so far

vars == <<users, chats, apiKey, sessionFiles, userConversations, userSelectedModel,
          heap, req, wire, started>>

shared == <<users, chats, apiKey, sessionFiles, userConversations, userSelectedModel, heap>>

IdleReq ==
  [id |-> 0, kind |-> "idle", pc |-> "idle", sessionId |-> "", auth |-> "", message |-> <<>>,
   model |-> NoModel, files |-> <<>>, user |-> "", isSubscribed |-> FALSE,
   existingChat |-> NoChat, totalChats |-> 0, selectedModel |-> NoModel,
   userContent |-> <<>>, messages |-> <<>>, conv |-> 0, provider |-> "",
   completeResponse |-> <<>>, sse |-> FALSE, ended |-> FALSE, outcome |-> "",
   steps |-> {}, dbResult |-> "", readerOpen |-> FALSE, abortAt |-> -1]

Ev(type, data) == [type |-> type, data |-> data]

\* ------------------------------------------------------------ Init
\* The process starts with empty in-memory maps; the durable tables hold what
\* earlier runs of the server left there.
ValidKeys == [openai |-> "sk-live", claude |-> "sk-ant-live", grok |-> "xai-live",
              gemini |-> "g-live"]
NoKeys == [openai |-> "not-a-key", claude |-> "", grok |-> "", gemini |-> "<YOUR_GEMINI_API_KEY>"]

UserTables ==
  { [u \in Users |-> IF u = "u1" THEN [is_subscribed |-> FALSE, stripe_subscription_id |-> ""]
                                 ELSE [is_subscribed |-> TRUE, stripe_subscription_id |-> "sub_2"]] }

\* u1 has two or three conversations of an earlier run on file; s1 is new, or a
\* conversation of u1 with 10 turns (20 messages) or 20 turns.
ChatTable(old, first) ==
  [c \in ChatIds |->
     IF c \in OldChats THEN (IF c \in old THEN PriorRow("u1", 1) ELSE NoRow)
     ELSE IF c = "s1" THEN first ELSE NoRow]

ChatTables ==
  {ChatTable({"old1", "old2"}, first) : first \in {NoRow, PriorRow("u1", 10), PriorRow("u1", 20)}}
  \cup {ChatTable(OldChats, NoRow)}

Init ==
  /\ users \in UserTables
  /\ \/ chats \in ChatTables /\ apiKey = ValidKeys
     \/ chats = ChatTable({}, NoRow) /\ apiKey = NoKeys
  /\ sessionFiles = [s \in Sessions |-> NoFiles]
  /\ userConversations = [s \in Sessions |-> 0]
  /\ userSelectedModel = [s \in Sessions |-> NoModel]
  /\ heap = [a \in ArrayIds |-> <<>>]
  /\ req = [r \in Slots |-> IdleReq]
  /\ wire = [r \in Slots |-> <<>>]
  /\ started = 0

\* ------------------------------------------------- the response of a request
\* res.write(`data: ${JSON.stringify(event)}\n\n`), res.end(), res.status(..).json(..)
Set(r, rec) == req' = [req EXCEPT ![r] = rec]
Write(r, evs) == wire' = [wire EXCEPT ![r] = @ \o evs]

IsTerminal(ev) == ev.type \in {"done", "error"}

\* The handler answers and returns: one event (an SSE error event when the SSE
\* headers are set, a JSON body otherwise), then the end of the response.
Reject(r, rec, reason) ==
  /\ Set(r, [rec EXCEPT !.pc = "done", !.outcome = reason, !.ended = TRUE])
  /\ Write(r, <<Ev(IF rec.sse THEN "error" ELSE "json", <<reason>>)>>)

\* ------------------------------------------------------------ intake
tokenOf(authHeader) ==
  CASE authHeader = "Bearer u1" -> "u1"
    [] authHeader = "Bearer u2" -> "u2"
    [] authHeader = "Bearer bad" -> "bad"
    [] OTHER -> ""

\* Intake that asks for a session id and nothing else.
IntakeOkSessionOnly(kind, sessionId, message, files) == sessionId # ""

\* server.js 265 (one-shot) and 578-590 (streaming): what the request must carry.
IntakeOk(kind, sessionId, message, files) ==
  CASE kind = "chat" -> ~(sessionId = "" \/ (message = <<>> /\ Len(files) = 0))
    [] kind = "stream" ->
         LET hasMessage == message # <<>> /\ trim(message) # <<>>
             hasFiles == Len(files) > 0
         IN  sessionId # "" /\ (hasMessage \/ hasFiles)
    [] OTHER -> sessionId # ""

\* A request arrives: intake validation and the Authorization header, up to the
\* first await (supabase.auth.getUser). server.js 261-283, 574-616, 1083-1098.
Arrive(r, in) ==
  /\ req[r].pc = "idle"
  /\ started < MaxRequests
  /\ LET rec == [IdleReq EXCEPT !.id = started + 1, !.kind = in.kind,
                                !.sessionId = in.sessionId, !.auth = in.auth,
                                !.message = in.message, !.model = in.model,
                                !.files = in.files]
     IN  IF ~IntakeOk(in.kind, in.sessionId, in.message, in.files)
           THEN Reject(r, rec, "bad_request")
         ELSE IF in.auth = "" \/ tokenOf(in.auth) = ""
           THEN Reject(r, rec, "auth_failed")
         ELSE /\ Set(r, [rec EXCEPT !.pc = "auth", !.sse = (in.kind = "stream")])
              /\ UNCHANGED wire
  /\ started' = started + 1
  /\ UNCHANGED shared

StartRequest(r) == \E in \in RequestInputs : Arrive(r, in)

\* Authenticate going on without looking at the error getUser returned.
AuthenticateUnchecked(r) ==
  /\ req[r].pc = "auth"
  /\ Set(r, [req[r] EXCEPT !.user = tokenOf(req[r].auth),
                           !.pc = IF req[r].kind = "delete" THEN "delete" ELSE "sub"])
  /\ UNCHANGED <<shared, wire, started>>

\* supabase.auth.getUser(token) has returned.
Authenticate(r) ==
  /\ req[r].pc = "auth"
  /\ LET token == tokenOf(req[r].auth)
     IN  IF token \notin Users
           THEN Reject(r, req[r], "auth_failed")
         ELSE /\ Set(r, [req[r] EXCEPT !.user = token,
                                       !.pc = IF req[r].kind = "delete" THEN "delete" ELSE "sub"])
              /\ UNCHANGED wire
  /\ UNCHANGED <<shared, started>>

\* ------------------------------------------------------- subscription
StripeReplies == {"active", "trialing", "canceled", "error"}

\* What the durable store does during one call: it answers, the read of the
\* profile comes back with an error, or the update of the flag does not go through
\* (its result is not looked at, server.js 201-204).
StoreStates == {"up", "read_error", "write_error"}

\* isUserSubscribed taking the flag on file for the answer whatever the billing
\* service says.
isUserSubscribedFromFlag(table, userId, stripe, store) ==
  IF userId = "" \/ store = "read_error" \/ userId \notin DOMAIN table
    THEN [value |-> FALSE, table |-> table]
  ELSE [value |-> table[userId].is_subscribed, table |-> table]

\* isUserSubscribed, server.js 179-222: the value returned and the users table after
\* the call, for the profile on file, the reply of the billing service and the
\* state of the store. A user without a row has a null profile.
isUserSubscribed(table, userId, stripe, store) ==
  IF userId = "" \/ store = "read_error" \/ userId \notin DOMAIN table
    THEN [value |-> FALSE, table |-> table]
  ELSE
  LET profile == table[userId]
      isActive == stripe \in {"active", "trialing"}
  IN  IF profile.stripe_subscription_id # ""
        THEN IF stripe = "error"
               THEN [value |-> profile.is_subscribed, table |-> table]
             ELSE [value |-> isActive,
                   table |-> IF profile.is_subscribed # isActive /\ store # "write_error"
                               THEN [table EXCEPT ![userId].is_subscribed = isActive]
                             ELSE table]
      ELSE [value |-> profile.is_subscribed, table |-> table]

\* The handlers' call; in the runs of whole requests the users table answers.
CheckSubscription(r) ==
  /\ req[r].pc = "sub"
  /\ \E stripe \in StripeReplies :
       LET res == isUserSubscribed(users, req[r].user, stripe, "up")
       IN  /\ users' = res.table
           /\ Set(r, [req[r] EXCEPT !.isSubscribed = res.value, !.pc = "existing"])
  /\ UNCHANGED <<chats, apiKey, sessionFiles, userConversations, userSelectedModel, heap,
                 wire, started>>

\* ------------------------------------------------------------- quotas
\* supabase.from('chats').select('messages, message_count').eq('id', ..).eq('user_id', ..)
selectChat(table, sessionId, userId) ==
  IF table[sessionId].present /\ table[sessionId].user_id = userId
    THEN [found |-> TRUE, messages |-> table[sessionId].messages,
          message_count |-> table[sessionId].message_count]
  ELSE NoChat

\* supabase.from('chats').select('*', {count: 'exact', head: true}).eq('user_id', ..)
countChats(table, userId) ==
  Cardinality({c \in ChatIds : table[c].present /\ table[c].user_id = userId})

\* The quota comparisons with > in place of >=.
newChatQuotaReachedStrict(totalChats) == totalChats > FreeChatLimit
messageQuotaReachedStrict(existingChat) == existingChat.message_count > FreeMessageLimit
newChatQuotaReached(totalChats) == totalChats >= FreeChatLimit
messageQuotaReached(existingChat) == existingChat.message_count >= FreeMessageLimit

\* LoadExistingChat without the per-chat quota: a chat on file always goes on.
LoadExistingChatUnmetered(r) ==
  /\ req[r].pc = "existing"
  /\ LET existingChat == selectChat(chats, req[r].sessionId, req[r].user)
         rec == [req[r] EXCEPT !.existingChat = existingChat]
     IN  IF ~rec.isSubscribed /\ ~existingChat.found
           THEN Set(r, [rec EXCEPT !.pc = "count"]) /\ UNCHANGED wire
         ELSE Set(r, [rec EXCEPT !.pc = "process"]) /\ UNCHANGED wire
  /\ UNCHANGED <<shared, started>>

\* The existing-chat query has returned (server.js 305-319, 640-652).
LoadExistingChat(r) ==
  /\ req[r].pc = "existing"
  /\ LET existingChat == selectChat(chats, req[r].sessionId, req[r].user)
         rec == [req[r] EXCEPT !.existingChat = existingChat]
     IN  IF ~rec.isSubscribed /\ ~existingChat.found
           THEN Set(r, [rec EXCEPT !.pc = "count"]) /\ UNCHANGED wire
         ELSE IF ~rec.isSubscribed /\ messageQuotaReached(existingChat)
           THEN Reject(r, rec, "quota_messages")
         ELSE Set(r, [rec EXCEPT !.pc = "process"]) /\ UNCHANGED wire
  /\ UNCHANGED <<shared, started>>

\* The count query of a free user's new chat has returned.
CountUserChats(r) ==
  /\ req[r].pc = "count"
  /\ LET totalChats == countChats(chats, req[r].user)
         rec == [req[r] EXCEPT !.totalChats = totalChats]
     IN  IF newChatQuotaReached(totalChats)
           THEN Reject(r, rec, "quota_new_chat")
         ELSE Set(r, [rec EXCEPT !.pc = "process"]) /\ UNCHANGED wire
  /\ UNCHANGED <<shared, started>>

\* -------------------------------------------------------- attachments
isImage(f) == f.mimetype \in {"image/png", "image/jpeg"}           \* startsWith('image/')
isReadableText(f) == f.mimetype \in {"text/plain", "text/csv", "application/json"}

\* processUploadedFiles, fileUtils.js: the registry after recording the files.
processUploadedFiles(files, sessionId, sessionFilesMap) ==
  IF Len(files) = 0 THEN sessionFilesMap
  ELSE LET filesList == sessionFilesMap[sessionId].list
           kept == SelectSeq(files, LAMBDA f : f.onDisk)
       IN  [sessionFilesMap EXCEPT ![sessionId] = [has |-> TRUE, list |-> filesList \o kept]]

\* readFileContent, fileUtils.js: the text of a stored file, <<>> standing for null.
readFileContent(f) == IF f.onDisk THEN <<"body of", f.name>> ELSE <<>>

\* The per-file description of a document (server.js 349-364, 733-748).
fileInfo(f) ==
  <<"-", f.name>> \o
  (IF isReadableText(f)
     THEN (IF readFileContent(f) # <<>>
             THEN <<"Content of", f.name>> \o readFileContent(f) ELSE <<>>)
   ELSE <<"[Binary file]">>)

RECURSIVE mapFileInfo(_)
mapFileInfo(files) ==
  IF files = <<>> THEN <<>> ELSE <<fileInfo(Head(files))>> \o mapFileInfo(Tail(files))

textFilesContentOf(textFiles) ==
  IF Len(textFiles) > 0
    THEN <<"I've attached the following text-based files:">>
         \o join(mapFileInfo(textFiles), <<"\n\n">>) \o <<"\n\n">>
  ELSE <<>>

\* server.js 376-380, 761-765
appendFilesContent(message, textFilesContent) ==
  IF textFilesContent # <<>>
    THEN message \o (IF message # <<>> THEN <<"\n\n">> ELSE <<>>) \o textFilesContent
  ELSE message

ClaudeImageLimit == 10
GeminiImageLimit == 10
GrokImageLimit == 20
OpenAIImageLimit == 20
DataURLLimit == 10

imageLimit(targetModel) ==
  CASE targetModel = "claude" -> ClaudeImageLimit
    [] targetModel = "gemini" -> GeminiImageLimit
    [] targetModel = "grok" -> GrokImageLimit
    [] OTHER -> OpenAIImageLimit

\* One image in the target's format, or Null when it is dropped.
Null == [type |-> "null", name |-> "", mimetype |-> ""]
encodeImage(f, targetModel) ==
  IF f.size > imageLimit(targetModel) THEN Null
  ELSE IF targetModel \in {"claude", "gemini"}
    THEN [type |-> IF targetModel = "claude" THEN "image" ELSE "inlineData",
          name |-> f.name, mimetype |-> f.mimetype]
  ELSE IF f.size > DataURLLimit THEN Null            \* fileToDataURL
  ELSE [type |-> "image_url", name |-> f.name, mimetype |-> f.mimetype]

RECURSIVE mapEncode(_, _)
mapEncode(files, targetModel) ==
  IF files = <<>> THEN <<>>
  ELSE <<encodeImage(Head(files), targetModel)>> \o mapEncode(Tail(files), targetModel)

\* prepareImagesForModel giving up on the whole list when one file is dropped.
prepareImagesForModelAborting(files, targetModel) ==
  LET imageFiles == SelectSeq(files, LAMBDA f : isImage(f) /\ f.onDisk)
      encoded == mapEncode(imageFiles, targetModel)
  IN  IF \E i \in 1..Len(encoded) : encoded[i] = Null THEN <<>> ELSE encoded

\* prepareImagesForModel, fileUtils.js (prepareClaudeImages filters its own nulls).
prepareImagesForModel(files, targetModel) ==
  LET imageFiles == SelectSeq(files, LAMBDA f : isImage(f) /\ f.onDisk)
      encoded == mapEncode(imageFiles, targetModel)
  IN  IF targetModel = "claude" THEN SelectSeq(encoded, LAMBDA x : x # Null) ELSE encoded

\* processImagesForGemini, geminiService.js: every file handed in is read, no
\* size is looked at; a read that throws gives null.
encodeForGemini(f) ==
  IF f.onDisk THEN [type |-> "inlineData", name |-> f.name, mimetype |-> f.mimetype] ELSE Null

RECURSIVE processImagesForGemini(_)
processImagesForGemini(imageFiles) ==
  IF imageFiles = <<>> THEN <<>>
  ELSE <<encodeForGemini(Head(imageFiles))>> \o processImagesForGemini(Tail(imageFiles))

\* The callers' imageContents.filter(item => item !== null).
validContents(imageContents) == SelectSeq(imageContents, LAMBDA x : x # Null)

\* ------------------------------------------------------------- routing
premiumModels == <<"gpt-4", "claude", "grok", "deepseek">>

\* isPremiumModel without the toLowerCase() of the model id.
isPremiumModelCaseSensitive(selectedModel) ==
  \E i \in 1..Len(premiumModels) : includes(selectedModel, premiumModels[i])

\* server.js 394-396, 683-685
isPremiumModel(selectedModel) ==
  LET modelName == toLowerCase(selectedModel)
  IN  \E i \in 1..Len(premiumModels) : includes(modelName, premiumModels[i])

\* The branch order of server.js 501-517 and 924-1000.
adapterFor(selectedModel) ==
  IF includes(selectedModel, "gemini") THEN "gemini"
  ELSE IF includes(selectedModel, "claude") THEN "claude"
  ELSE IF includes(selectedModel, "grok") THEN "grok"
  ELSE "openai"

\* The image branch order of server.js 417-469 and 782-878.
imageTargetFor(selectedModel) ==
  IF includes(selectedModel, "claude") THEN "claude"
  ELSE IF ~includes(selectedModel, "gemini") /\ ~includes(selectedModel, "grok") THEN "openai"
  ELSE IF includes(selectedModel, "grok") THEN "grok"
  ELSE "gemini"

\* isConfigured taking any non-empty key for a valid one.
isConfiguredAnyKey(provider, keys) ==
  CASE provider = "openai" -> keys.openai # ""
    [] provider = "claude" -> keys.claude # ""
    [] provider = "grok" -> keys.grok # ""
    [] provider = "gemini" -> keys.gemini # ""

\* isOpenAIConfigured, config.claude/grok/gemini.isConfigured
isConfigured(provider, keys) ==
  CASE provider = "openai" -> keys.openai \in {"sk-live"}            \* startsWith('sk-')
    [] provider = "claude" -> keys.claude \in {"sk-ant-live"}        \* startsWith('sk-ant-')
    [] provider = "grok" -> keys.grok \in {"xai-live"}               \* startsWith('xai-')
    [] provider = "gemini" -> keys.gemini # "" /\ keys.gemini # "<YOUR_GEMINI_API_KEY>"

\* ------------------------------------------------- session initialisation
\* server.js 333-337 and 672-680: the history array and the selected model of the
\* session after the block, for a request that names `model`.
\* initConversation with the history created as [] instead of [system prompt].
initConversationEmpty(convs, hp, sessionId, newId) ==
  IF convs[sessionId] = 0
    THEN [convs |-> [convs EXCEPT ![sessionId] = newId],
          heap |-> [hp EXCEPT ![newId] = <<>>]]
  ELSE [convs |-> convs, heap |-> hp]

initConversation(convs, hp, sessionId, newId) ==
  IF convs[sessionId] = 0
    THEN [convs |-> [convs EXCEPT ![sessionId] = newId],
          heap |-> [hp EXCEPT ![newId] = <<Msg("system", SystemPrompt)>>]]
  ELSE [convs |-> convs, heap |-> hp]

initSelectedModel(models, fresh, sessionId, model) ==
  IF fresh
    THEN [models EXCEPT ![sessionId] = IF model # NoModel THEN model ELSE DefaultModel]
  ELSE models

selectModel(models, sessionId, model) ==
  LET stored == IF models[sessionId] # NoModel THEN models[sessionId] ELSE DefaultModel
  IN  IF model # NoModel THEN model ELSE stored

\* ------------------------------------------- streaming: up to the dispatch
\* server.js 696-709: the message list for the provider, built from the history.
historyForProvider(conversationHistory) ==
  <<Msg("system", StreamSystemPrompt)>> \o
  (IF Len(conversationHistory) > 1 THEN Tail(conversationHistory) ELSE <<>>)

\* server.js 760-774
streamUserContent(message, textFiles, imageFiles) ==
  LET userContent == appendFilesContent(message, textFilesContentOf(textFiles))
  IN  IF userContent = <<>> /\ Len(imageFiles) = 0
        THEN <<"Please analyze the attached files.">>
      ELSE userContent

\* server.js 789-805: the text-only message of the turn gives way to the multi-part one.
withImageMessage(messages, userContent, validImageContents) ==
  LET promptText == IF userContent # <<>> THEN userContent
                    ELSE <<"Please analyze these images and provide insights:">>
      popped == IF Len(messages) > 0 /\ messages[Len(messages)].role = "user"
                  THEN SubSeq(messages, 1, Len(messages) - 1) ELSE messages
  IN  Append(popped, ImageMsg(promptText, validImageContents))

\* server.js 654-886 from the end of the quota checks to the call of the adapter:
\* the file registry, the session, the premium gate, the message list, the images.
\* The awaits inside this range (reading the documents, encoding the images) come
\* after the last access to the shared maps: what follows them works on the
\* handler's locals only, so the range is one step.
ProcessStream(r) ==
  /\ req[r].pc = "process" /\ req[r].kind = "stream"
  /\ LET q == req[r]
         sid == q.sessionId
         fresh == userConversations[sid] = 0
         init == initConversation(userConversations, heap, sid, q.id)
         models0 == initSelectedModel(userSelectedModel, fresh, sid, q.model)
         selectedModel == selectModel(models0, sid, q.model)
         conversationHistory == init.heap[init.convs[sid]]
         messages0 == historyForProvider(conversationHistory)
         imageFiles == SelectSeq(q.files, isImage)
         textFiles == SelectSeq(q.files, LAMBDA f : ~isImage(f))
         userContent == streamUserContent(q.message, textFiles, imageFiles)
         messages1 == IF userContent # <<>>
                        THEN Append(messages0, Msg("user", userContent)) ELSE messages0
         target == imageTargetFor(selectedModel)
         prepared == IF Len(imageFiles) > 0 /\ target # "gemini"
                       THEN prepareImagesForModel(imageFiles, target) ELSE <<>>
         validImageContents == SelectSeq(prepared, LAMBDA x : x # Null)
         rec == [q EXCEPT !.selectedModel = selectedModel, !.conv = init.convs[sid],
                          !.steps = @ \cup (IF Len(q.files) > 0 THEN {"registry"} ELSE {})]
     IN  /\ sessionFiles' = processUploadedFiles(q.files, sid, sessionFiles)
         /\ userConversations' = init.convs
         /\ heap' = init.heap
         /\ userSelectedModel' = [models0 EXCEPT ![sid] = selectedModel]
         /\ IF isPremiumModel(selectedModel) /\ ~q.isSubscribed
              THEN Reject(r, rec, "premium_required")
            ELSE LET rec2 == [rec EXCEPT
                       !.userContent = userContent,
                       !.steps = @ \cup (IF Len(textFiles) > 0 THEN {"docs"} ELSE {})
                                   \cup (IF Len(imageFiles) > 0 /\ target # "gemini"
                                           THEN {"images"} ELSE {})]
                 IN  IF Len(imageFiles) > 0 /\ target # "gemini"
                          /\ Len(validImageContents) = 0
                       THEN Reject(r, rec2, "attachment_error")
                     ELSE /\ Set(r, [rec2 EXCEPT
                                !.pc = "dispatch",
                                !.provider = adapterFor(selectedModel),
                                !.messages =
                                   IF Len(validImageContents) > 0
                                     THEN withImageMessage(messages1, userContent,
                                                           validImageContents)
                                   ELSE messages1])
                          /\ UNCHANGED wire
  /\ UNCHANGED <<users, chats, apiKey, started>>

\* ------------------------------------------------------ the providers
\* The k-th content delta of a provider's reply, and the reply of k deltas.
ChunkAt(k) == IF k % 2 = 1 THEN "a" ELSE "b"
ReplyText(k) == [i \in 1..k |-> ChunkAt(i)]
Replies == {ReplyText(k) : k \in 1..MaxChunks}
GeminiFallback == <<"Error processing Gemini response.">>

\* The failing adapter returning without a word to the client.
adapterErrorEventsSilent(reason) == <<>>

\* What a failing streaming adapter writes before it returns or rethrows
\* (openaiService.js 58-63, 91-96; claudeService.js 208-213, 311-316, 442-447,
\* 535-540; geminiService.js 206-211): one error event, then res.end().
adapterErrorEvents(reason) == <<Ev("error", <<reason>>)>>

\* The adapter's done event left out.
adapterDoneEventsMissing == <<>>

\* What an adapter writes when the provider's reply is complete, before res.end()
\* (openaiService.js 82, claudeService.js 302, 526; geminiService.js 200).
adapterDoneEvents == <<Ev("done", <<>>)>>

\* Whether the adapter rethrows after writing its error event.
adapterRethrows(provider, reason) == provider = "gemini" \/ reason = "provider_error"

\* server.js 924-1007: the Gemini, Claude and Grok branches catch what their adapter
\* rethrows; the default branch has no catch of its own, so the handler's catch at
\* 1003 writes an error event as well.
handlerCatchEvents(provider, reason) ==
  IF adapterRethrows(provider, reason) /\ provider = "openai"
    THEN <<Ev("error", <<"Failed to generate AI response">>)>>
  ELSE <<>>

StreamError(r, rec, reason) ==
  /\ Set(r, [rec EXCEPT !.pc = "done", !.outcome = reason, !.ended = TRUE,
                        !.readerOpen = FALSE])
  /\ Write(r, adapterErrorEvents(reason) \o handlerCatchEvents(rec.provider, reason))

\* server.js 930: the text handed to handleGeminiStreamingRequest.
geminiUserContent(userContent) ==
  IF userContent # <<>> THEN userContent ELSE <<"Please analyze these images.">>

\* The user text the adapter of a request is called with: the Gemini adapters take
\* the text itself (server.js 504, 933), the others the last message of the list
\* (server.js 508-516, 976-998).
dispatchedText(q) ==
  IF q.provider = "gemini"
    THEN (IF q.kind = "stream" THEN geminiUserContent(q.userContent) ELSE q.userContent)
  ELSE IF q.messages # <<>> /\ q.messages[Len(q.messages)].role = "user"
    THEN q.messages[Len(q.messages)].content
  ELSE <<>>

\* generateGeminiResponse, geminiService.js 108-136: the contents of the payload,
\* one entry whose parts are the text, if any, and the images that could be read.
geminiPayload(userContent, imageFiles) ==
  <<[role |-> "user", content |-> userContent,
     images |-> validContents(processImagesForGemini(imageFiles))]>>

\* What the handler gives the adapter of a request: the Gemini adapters are called
\* with the text and the image files (server.js 504, 933), the others with the
\* message list (508-516, 976-998).
adapterInput(q) ==
  IF q.provider = "gemini"
    THEN geminiPayload(dispatchedText(q), SelectSeq(q.files, isImage))
  ELSE q.messages

\* The simulated stream cut into one chunk event per piece of the reply.
RECURSIVE geminiStreamEventsPiecewise(_)
geminiStreamEventsPiecewise(botReply) ==
  IF botReply = <<>> THEN adapterDoneEvents
  ELSE <<Ev("chunk", <<Head(botReply)>>)>> \o geminiStreamEventsPiecewise(Tail(botReply))

\* handleGeminiStreamingRequest, geminiService.js 196-201: the whole reply as one
\* chunk event, then the done event.
geminiStreamEvents(botReply) == <<Ev("chunk", botReply)>> \o adapterDoneEvents

\* The adapter is entered and its request to the provider answered
\* (generate*StreamingResponse up to the read loop, handleGeminiStreamingRequest).
DispatchStream(r) ==
  /\ req[r].pc = "dispatch" /\ req[r].kind = "stream"
  /\ LET q == req[r]
     IN  IF ~isConfigured(q.provider, apiKey)
           THEN StreamError(r, q, "config_error")
         ELSE \E answer \in {"ok", "failed", "no_text"} :
                LET rec == [q EXCEPT !.steps = @ \cup {"provider"}]
                IN  IF answer = "failed"
                      THEN StreamError(r, rec, "provider_error")
                    ELSE IF q.provider = "gemini"
                      THEN \E text \in Replies :
                             LET botReply == IF answer = "no_text" THEN GeminiFallback
                                             ELSE text
                             IN  /\ Set(r, [rec EXCEPT !.pc = "complete", !.ended = TRUE,
                                                       !.completeResponse = botReply])
                                 /\ Write(r, geminiStreamEvents(botReply))
                    ELSE /\ Set(r, [rec EXCEPT !.pc = "streaming",
                                               !.readerOpen = q.provider \in {"claude", "grok"}])
                         /\ UNCHANGED wire
  /\ UNCHANGED <<shared, started>>

\* accumulate with the operands swapped: each delta lands in front of the buffer.
accumulatePrepending(completeResponse, content) == content \o completeResponse

\* The accumulation of the read loop: completeResponse += content.
accumulate(completeResponse, content) == completeResponse \o content

\* One content delta arrives: it is forwarded and accumulated
\* (openaiService.js 73-79, claudeService.js 289-293, 513-517).
StreamChunk(r) ==
  /\ req[r].pc = "streaming"
  /\ Len(req[r].completeResponse) < MaxChunks
  /\ LET content == <<ChunkAt(Len(req[r].completeResponse) + 1)>>
     IN  /\ Write(r, <<Ev("chunk", content)>>)
         /\ Set(r, [req[r] EXCEPT !.completeResponse = accumulate(@, content)])
  /\ UNCHANGED <<shared, started>>

\* The provider's stream breaks: the read throws inside the adapter's try.
StreamFail(r) ==
  /\ req[r].pc = "streaming"
  /\ StreamError(r, req[r], "provider_error")
  /\ UNCHANGED <<shared, started>>

\* The provider's stream ends: the done event, res.end(), and then the completion
\* handler is called (openaiService.js 81-88, claudeService.js 301-308, 525-532).
StreamEnd(r) ==
  /\ req[r].pc = "streaming"
  /\ Write(r, adapterDoneEvents)
  /\ Set(r, [req[r] EXCEPT !.pc = "complete", !.ended = TRUE, !.readerOpen = FALSE])
  /\ UNCHANGED <<shared, started>>

\* The client goes away during the stream. Nothing in the handler or the adapters
\* listens for it (no 'close' handler, no reader.cancel()).
ClientAbort(r) ==
  /\ req[r].pc = "streaming"
  /\ req[r].abortAt = -1
  /\ Set(r, [req[r] EXCEPT !.abortAt = Len(wire[r])])
  /\ UNCHANGED <<shared, wire, started>>

\* ------------------------------------------------------- persistence
\* saveCompletedChat, server.js 889-894: the history after the turn.
saveToHistory(conversationHistory, userContent, completeResponse) ==
  LET withUser ==
        IF userContent # <<>> /\
           ~(\E i \in 1..Len(conversationHistory) :
                conversationHistory[i].role = "user" /\
                conversationHistory[i].content = userContent)
          THEN Append(conversationHistory, Msg("user", userContent))
        ELSE conversationHistory
  IN  Append(withUser, Msg("assistant", completeResponse))

\* server.js 935-937: the Gemini branch updates the history itself.
geminiSaveToHistory(conversationHistory, userContent, botReply) ==
  conversationHistory \o <<Msg("user", userContent), Msg("assistant", botReply)>>

\* The completion handler runs up to its await of the durable write.
SaveCompletedChat(r) ==
  /\ req[r].pc = "complete"
  /\ LET q == req[r]
     IN  /\ heap' = [heap EXCEPT ![q.conv] =
                       IF q.provider = "gemini"
                         THEN geminiSaveToHistory(@, q.userContent, q.completeResponse)
                       ELSE saveToHistory(@, q.userContent, q.completeResponse)]
         /\ Set(r, [q EXCEPT !.pc = "dbwrite", !.steps = @ \cup {"memory", "db"}])
  /\ UNCHANGED <<users, chats, apiKey, sessionFiles, userConversations, userSelectedModel,
                 wire, started>>

\* saveChat whose update branch stores the turn in place of the previous messages
\* followed by the turn.
saveChatDroppingPrevious(table, sessionId, userId, existingChat, userContent, botReply) ==
  LET turn == <<Msg("user", userContent), Msg("assistant", botReply)>>
  IN  IF ~existingChat.found
        THEN IF table[sessionId].present
               THEN [table |-> table, error |-> TRUE]
             ELSE [table |-> [table EXCEPT ![sessionId] = Row(userId, turn, 1)],
                   error |-> FALSE]
      ELSE IF table[sessionId].present
        THEN [table |-> [table EXCEPT ![sessionId].messages = turn,
                                      ![sessionId].message_count =
                                         existingChat.message_count + 1],
              error |-> FALSE]
      ELSE [table |-> table, error |-> FALSE]

\* server.js 522-543, 897-917, 940-960: the chats table after the write, and whether
\* the store reported an error (an insert on an id that is taken is refused).
saveChat(table, sessionId, userId, existingChat, userContent, botReply) ==
  LET turn == <<Msg("user", userContent), Msg("assistant", botReply)>>
  IN  IF ~existingChat.found
        THEN IF table[sessionId].present
               THEN [table |-> table, error |-> TRUE]
             ELSE [table |-> [table EXCEPT ![sessionId] = Row(userId, turn, 1)],
                   error |-> FALSE]
      ELSE IF table[sessionId].present
        THEN [table |-> [table EXCEPT ![sessionId].messages = existingChat.messages \o turn,
                                      ![sessionId].message_count =
                                         existingChat.message_count + 1],
              error |-> FALSE]
      ELSE [table |-> table, error |-> FALSE]

\* WriteChat letting a failed write fail the turn: the caller is sent an error.
WriteChatStrict(r) ==
  /\ req[r].pc = "dbwrite"
  /\ \E storeUp \in BOOLEAN :
       LET q == req[r]
           res == saveChat(chats, q.sessionId, q.user, q.existingChat, q.userContent,
                           q.completeResponse)
           failed == ~storeUp \/ res.error
       IN  /\ chats' = IF storeUp THEN res.table ELSE chats
           /\ Set(r, [q EXCEPT !.pc = "done", !.outcome = IF failed THEN "db_error" ELSE "ok",
                               !.ended = TRUE,
                               !.dbResult = IF failed THEN "error" ELSE "ok"])
           /\ IF failed THEN Write(r, <<Ev(IF q.sse THEN "error" ELSE "json", <<"db_error">>)>>)
              ELSE IF q.kind = "chat"
                THEN Write(r, <<Ev("json", <<"reply">> \o q.completeResponse)>>)
              ELSE UNCHANGED wire
  /\ UNCHANGED <<users, apiKey, sessionFiles, userConversations, userSelectedModel, heap,
                 started>>

\* The durable write returns; the one-shot handler then sends its reply.
WriteChat(r) ==
  /\ req[r].pc = "dbwrite"
  /\ \E storeUp \in BOOLEAN :
       LET q == req[r]
           res == saveChat(chats, q.sessionId, q.user, q.existingChat, q.userContent,
                           q.completeResponse)
       IN  /\ chats' = IF storeUp THEN res.table ELSE chats
           /\ Set(r, [q EXCEPT !.pc = "done", !.outcome = "ok", !.ended = TRUE,
                               !.dbResult = IF storeUp /\ ~res.error THEN "ok" ELSE "error"])
           /\ IF q.kind = "chat" THEN Write(r, <<Ev("json", <<"reply">> \o q.completeResponse)>>)
              ELSE UNCHANGED wire
  /\ UNCHANGED <<users, apiKey, sessionFiles, userConversations, userSelectedModel, heap,
                 started>>

\* --------------------------------------------- one-shot: up to the dispatch
\* server.js 376-385
chatUserContent(message, textFiles, imageFiles) ==
  LET userContent == appendFilesContent(message, textFilesContentOf(textFiles))
  IN  IF userContent = <<>> /\ (Len(imageFiles) > 0 \/ Len(textFiles) > 0)
        THEN <<"Please analyze the attached files.">>
      ELSE userContent

\* server.js 436-437: messages.slice(0, -1), then the multi-part message.
chatWithImageMessage(messages, userContent, validImageContents) ==
  LET promptText == IF userContent # <<>> THEN userContent
                    ELSE <<"Please analyze these images and provide insights:">>
  IN  Append(SubSeq(messages, 1, Len(messages) - 1), ImageMsg(promptText, validImageContents))

\* server.js 375-498, from the user message to the call of the adapter: the user
\* message enters the history, the model is stored, then the premium gate.
ChatTurn(r, rec, hp, models) ==
  LET sid == rec.sessionId
      imageFiles == SelectSeq(rec.files, isImage)
      textFiles == SelectSeq(rec.files, LAMBDA f : ~isImage(f))
      userContent == chatUserContent(rec.message, textFiles, imageFiles)
      history == Append(hp[rec.conv], Msg("user", userContent))
      selectedModel == selectModel(models, sid, rec.model)
      target == imageTargetFor(selectedModel)
      prepared == IF Len(imageFiles) > 0 /\ target # "gemini"
                    THEN prepareImagesForModel(imageFiles, target) ELSE <<>>
      validImageContents == SelectSeq(prepared, LAMBDA x : x # Null)
      rec1 == [rec EXCEPT !.userContent = userContent, !.selectedModel = selectedModel]
  IN  /\ heap' = [hp EXCEPT ![rec.conv] = history]
      /\ userSelectedModel' = [models EXCEPT ![sid] = selectedModel]
      /\ IF isPremiumModel(selectedModel) /\ ~rec.isSubscribed
           THEN Reject(r, rec1, "premium_required")
         ELSE /\ Set(r, [rec1 EXCEPT
                    !.pc = "dispatch",
                    !.provider = adapterFor(selectedModel),
                    !.steps = @ \cup (IF Len(imageFiles) > 0 /\ target # "gemini"
                                        THEN {"images"} ELSE {}),
                    !.messages = IF Len(validImageContents) > 0
                                   THEN chatWithImageMessage(history, userContent,
                                                             validImageContents)
                                 ELSE history])
              /\ UNCHANGED wire

\* server.js 321-373: the file registry and the session; the handler awaits the
\* reading of the documents if there are any, and goes on at once if not.
ProcessChat(r) ==
  /\ req[r].pc = "process" /\ req[r].kind = "chat"
  /\ LET q == req[r]
         sid == q.sessionId
         fresh == userConversations[sid] = 0
         init == initConversation(userConversations, heap, sid, q.id)
         models0 == initSelectedModel(userSelectedModel, fresh, sid, q.model)
         textFiles == SelectSeq(q.files, LAMBDA f : ~isImage(f))
         rec == [q EXCEPT !.conv = init.convs[sid],
                          !.steps = @ \cup (IF Len(q.files) > 0 THEN {"registry"} ELSE {})
                                      \cup (IF Len(textFiles) > 0 THEN {"docs"} ELSE {})]
     IN  /\ sessionFiles' = processUploadedFiles(q.files, sid, sessionFiles)
         /\ userConversations' = init.convs
         /\ IF Len(textFiles) > 0
              THEN /\ Set(r, [rec EXCEPT !.pc = "docs"])
                   /\ heap' = init.heap
                   /\ userSelectedModel' = models0
                   /\ UNCHANGED wire
            ELSE ChatTurn(r, rec, init.heap, models0)
  /\ UNCHANGED <<users, chats, apiKey, started>>

\* The documents are read: the handler goes on with the user message.
ChatAfterDocs(r) ==
  /\ req[r].pc = "docs"
  /\ ChatTurn(r, req[r], heap, userSelectedModel)
  /\ UNCHANGED <<users, chats, apiKey, sessionFiles, userConversations, started>>

\* generate*Response, and server.js 519-520 on its return: throws are answered by
\* the catch at 550 with a 500. A 2xx body without the reply text is no_text when
\* the array the adapter indexes is empty (data.content[0].text and
\* choices[0].message.content throw) and null_text when the entry is there without
\* text (the adapter returns undefined or null, which the handler stores and sends).
\* generateGeminiResponse returns its fallback text in both cases.
DispatchChat(r) ==
  /\ req[r].pc = "dispatch" /\ req[r].kind = "chat"
  /\ LET q == req[r]
     IN  IF ~isConfigured(q.provider, apiKey)
           THEN Reject(r, q, "config_error") /\ UNCHANGED heap
         ELSE \E answer \in {"ok", "failed", "no_text", "null_text"}, text \in Replies :
                LET rec == [q EXCEPT !.steps = @ \cup {"provider"}]
                    botReply == IF answer \in {"no_text", "null_text"} /\ q.provider = "gemini"
                                  THEN GeminiFallback
                                ELSE IF answer = "null_text" THEN <<>> ELSE text
                IN  IF answer = "failed" \/ (answer = "no_text" /\ q.provider # "gemini")
                      THEN Reject(r, rec, "provider_error") /\ UNCHANGED heap
                    ELSE /\ heap' = [heap EXCEPT ![q.conv] =
                                       Append(@, Msg("assistant", botReply))]
                         /\ Set(r, [rec EXCEPT !.pc = "dbwrite",
                                               !.completeResponse = botReply,
                                               !.steps = @ \cup {"memory", "db"}])
                         /\ UNCHANGED wire
  /\ UNCHANGED <<users, chats, apiKey, sessionFiles, userConversations, userSelectedModel,
                 started>>

\* ------------------------------------------------------------ delete
\* supabase.from('chats').delete().eq('id', ..).eq('user_id', ..)
deleteChat(table, sessionId, userId) ==
  IF table[sessionId].present /\ table[sessionId].user_id = userId
    THEN [table EXCEPT ![sessionId] = NoRow]
  ELSE table

\* DELETE /api/chat/:sessionId, server.js 1112-1127, once the delete has returned.
DeleteChat(r) ==
  /\ req[r].pc = "delete"
  /\ \E storeUp \in BOOLEAN :
       LET q == req[r]
       IN  IF ~storeUp
             THEN /\ Reject(r, q, "delete_failed")
                  /\ UNCHANGED <<chats, sessionFiles, userConversations, userSelectedModel>>
           ELSE /\ chats' = deleteChat(chats, q.sessionId, q.user)
                /\ sessionFiles' = [sessionFiles EXCEPT ![q.sessionId] = NoFiles]
                /\ userConversations' = [userConversations EXCEPT ![q.sessionId] = 0]
                /\ userSelectedModel' = [userSelectedModel EXCEPT ![q.sessionId] = NoModel]
                /\ Set(r, [q EXCEPT !.pc = "done", !.outcome = "ok", !.ended = TRUE])
                /\ Write(r, <<Ev("json", <<"success">>)>>)
  /\ UNCHANGED <<users, apiKey, heap, started>>

\* ------------------------------------------------------ end of a request
\* The handler has returned and its response is closed: its locals are gone, and
\* so is a history array that neither the map nor a request in flight refers to.
Retire(r) ==
  /\ req[r].pc = "done"
  /\ req' = [req EXCEPT ![r] = IdleReq]
  /\ wire' = [wire EXCEPT ![r] = <<>>]
  /\ heap' = [a \in ArrayIds |->
               IF (\E s \in Sessions : userConversations[s] = a)
                  \/ (\E o \in DOMAIN req \ {r} : req[o].conv = a)
                 THEN heap[a] ELSE <<>>]
  /\ UNCHANGED <<users, chats, apiKey, sessionFiles, userConversations, userSelectedModel,
                 started>>

\* One run of the handler of request r between two awaits.
Step(r) ==
    \/ Authenticate(r)
    \/ CheckSubscription(r)
    \/ LoadExistingChat(r)
    \/ CountUserChats(r)
    \/ ProcessStream(r)
    \/ ProcessChat(r)
    \/ ChatAfterDocs(r)
    \/ DispatchStream(r)
    \/ DispatchChat(r)
    \/ StreamChunk(r)
    \/ StreamFail(r)
    \/ StreamEnd(r)
    \/ ClientAbort(r)
    \/ SaveCompletedChat(r)
    \/ WriteChat(r)
    \/ DeleteChat(r)
    \/ Retire(r)

Next == \E r \in Slots : StartRequest(r) \/ Step(r)

Spec == Init /\ [][Next]_vars

\* ------------------------------------------- requests on one session at once
\* The owner u1 of session s1 sends turns and deletes on it while an earlier
\* request on the session is still in flight.
RaceSlots == 1..(MaxInFlight + 1)

RaceInputs ==
  {Input(k, "s1", "Bearer u1", p) :
     k \in {"chat", "stream"},
     p \in {Plain, [message |-> <<"hi">>, files |-> <<TextDoc>>, model |-> NoModel]}}
  \cup {Input("delete", "s1", "Bearer u1", Empty)}

InitRace ==
  /\ users \in UserTables
  /\ chats = ChatTable({"old1"}, PriorRow("u1", 1))
  /\ apiKey = ValidKeys
  /\ sessionFiles = [s \in Sessions |-> NoFiles]
  /\ userConversations = [s \in Sessions |-> 0]
  /\ userSelectedModel = [s \in Sessions |-> NoModel]
  /\ heap = [a \in ArrayIds |-> <<>>]
  /\ req = [r \in RaceSlots |-> IdleReq]
  /\ wire = [r \in RaceSlots |-> <<>>]
  /\ started = 0

StartRace(r) == \E in \in RaceInputs : Arrive(r, in)

NextRace == \E r \in RaceSlots : StartRace(r) \/ Step(r)

SpecRace == InitRace /\ [][NextRace]_vars

\* ------------------------------------- streaming requests that run to their end
\* The streaming endpoint alone, with every call a handler awaits returning and the
\* provider's stream coming to its end or breaking: a handler that can go on does.
StreamInputs == {in \in RequestInputs : in.kind = "stream"}

StartStream(r) == \E in \in StreamInputs : Arrive(r, in)

StreamStep(r) ==
    \/ Authenticate(r)
    \/ CheckSubscription(r)
    \/ LoadExistingChat(r)
    \/ CountUserChats(r)
    \/ ProcessStream(r)
    \/ DispatchStream(r)
    \/ StreamChunk(r)
    \/ StreamFail(r)
    \/ StreamEnd(r)
    \/ ClientAbort(r)
    \/ SaveCompletedChat(r)
    \/ WriteChat(r)
    \/ Retire(r)

NextStream == \E r \in Slots : StartStream(r) \/ StreamStep(r)

SpecStream == Init /\ [][NextStream]_vars /\ \A r \in Slots : WF_vars(StreamStep(r))

\* ------------------------------------- a free user's requests against the quotas
\* The free user u1 has two conversations on file; session s1 is new or a
\* conversation of u1 one turn short of the per-chat limit, s2 is new. u1 sends
\* turns on both sessions, a second one while the first is still in flight.
QuotaInputs == {Input(k, s, "Bearer u1", Plain) : k \in {"chat", "stream"}, s \in Sessions}

InitQuota ==
  /\ users \in UserTables
  /\ chats \in {ChatTable({"old1", "old2"}, first) :
                  first \in {NoRow, PriorRow("u1", FreeMessageLimit - 1)}}
  /\ apiKey = ValidKeys
  /\ sessionFiles = [s \in Sessions |-> NoFiles]
  /\ userConversations = [s \in Sessions |-> 0]
  /\ userSelectedModel = [s \in Sessions |-> NoModel]
  /\ heap = [a \in ArrayIds |-> <<>>]
  /\ req = [r \in RaceSlots |-> IdleReq]
  /\ wire = [r \in RaceSlots |-> <<>>]
  /\ started = 0

StartQuota(r) == \E in \in QuotaInputs : Arrive(r, in)

\* The runs of the handlers of plain turns.
PlainTurnStep(r) ==
    \/ Authenticate(r)
    \/ CheckSubscription(r)
    \/ LoadExistingChat(r)
    \/ CountUserChats(r)
    \/ ProcessStream(r)
    \/ ProcessChat(r)
    \/ DispatchStream(r)
    \/ DispatchChat(r)
    \/ StreamChunk(r)
    \/ StreamFail(r)
    \/ StreamEnd(r)
    \/ SaveCompletedChat(r)
    \/ WriteChat(r)
    \/ Retire(r)

NextQuota == \E r \in RaceSlots : StartQuota(r) \/ PlainTurnStep(r)

SpecQuota == InitQuota /\ [][NextQuota]_vars

\* --------------------------------------------- two users on one session id
\* Each user sends turns whose text names its sender, all on session s1, one
\* request after the other; nothing is on file.
MessageOf(u) == <<"hi from", u>>
SharedInputs ==
  {Input(k, "s1", a, [message |-> MessageOf(tokenOf(a)), files |-> <<>>, model |-> NoModel]) :
     k \in {"chat", "stream"}, a \in ValidAuth}

InitShared ==
  /\ users \in UserTables /\ chats = ChatTable({}, NoRow) /\ apiKey = ValidKeys
  /\ sessionFiles = [s \in Sessions |-> NoFiles]
  /\ userConversations = [s \in Sessions |-> 0]
  /\ userSelectedModel = [s \in Sessions |-> NoModel]
  /\ heap = [a \in ArrayIds |-> <<>>]
  /\ req = [r \in Slots |-> IdleReq]
  /\ wire = [r \in Slots |-> <<>>]
  /\ started = 0

StartShared(r) == \E in \in SharedInputs : Arrive(r, in)

NextShared == \E r \in Slots : StartShared(r) \/ PlainTurnStep(r)

SpecShared == InitShared /\ [][NextShared]_vars

\* ------------------------------------------- the two endpoints side by side
\* One request is sent to the one-shot endpoint for session s1 and, with the same
\* token, message, files and model, to the streaming endpoint for session s2. Both
\* sessions are new, so each handler starts from the same session state.
TwinPayloads ==
  {Plain, Blank,
   [message |-> <<"hi">>, files |-> <<>>, model |-> "GPT-4"],
   [message |-> <<"hi">>, files |-> <<>>, model |-> "gemini-pro"],
   [message |-> <<"hi">>, files |-> <<TextDoc>>, model |-> NoModel],
   [message |-> <<>>, files |-> <<Image>>, model |-> "gpt-3.5-turbo"],
   [message |-> <<"hi">>, files |-> <<LostImage>>, model |-> "gpt-3.5-turbo"]}

InitTwin ==
  /\ users \in UserTables /\ chats = ChatTable({}, NoRow) /\ apiKey = ValidKeys
  /\ sessionFiles = [s \in Sessions |-> NoFiles]
  /\ userConversations = [s \in Sessions |-> 0]
  /\ userSelectedModel = [s \in Sessions |-> NoModel]
  /\ heap = [a \in ArrayIds |-> <<>>]
  /\ req = [r \in RaceSlots |-> IdleReq]
  /\ wire = [r \in RaceSlots |-> <<>>]
  /\ started = 0

StartTwinChat(r) ==
  /\ r = 1
  /\ \E a \in ValidAuth, p \in TwinPayloads : Arrive(r, Input("chat", "s1", a, p))

StartTwinStream(r) ==
  /\ r = 2 /\ req[1].kind = "chat"
  /\ Arrive(r, [req[1] EXCEPT !.kind = "stream", !.sessionId = "s2"])

\* The runs of the two handlers, without deletes and without reuse of a slot.
TwinStep(r) ==
    \/ Authenticate(r)
    \/ CheckSubscription(r)
    \/ LoadExistingChat(r)
    \/ CountUserChats(r)
    \/ ProcessStream(r)
    \/ ProcessChat(r)
    \/ ChatAfterDocs(r)
    \/ DispatchStream(r)
    \/ DispatchChat(r)
    \/ StreamChunk(r)
    \/ StreamFail(r)
    \/ StreamEnd(r)
    \/ SaveCompletedChat(r)
    \/ WriteChat(r)

NextTwin == \E r \in RaceSlots : StartTwinChat(r) \/ StartTwinStream(r) \/ TwinStep(r)
SpecTwin == InitTwin /\ [][NextTwin]_vars

\* ------------------------------------------------ isUserSubscribed on its own
\* Every profile a user can have on file, users without a row ("u0") and the
\* missing user id.
Profiles == [is_subscribed : BOOLEAN, stripe_subscription_id : {"", "sub_1"}]
SubscriptionUserIds == Users \cup {"u0", ""}

InitSubscription ==
  /\ users \in [Users -> Profiles]
  /\ chats = ChatTable({}, NoRow) /\ apiKey = ValidKeys
  /\ sessionFiles = [s \in Sessions |-> NoFiles]
  /\ userConversations = [s \in Sessions |-> 0]
  /\ userSelectedModel = [s \in Sessions |-> NoModel]
  /\ heap = [a \in ArrayIds |-> <<>>]
  /\ \E u \in SubscriptionUserIds :
       req = [r \in Slots |-> [IdleReq EXCEPT !.kind = "subscription", !.user = u]]
  /\ wire = [r \in Slots |-> <<>>]
  /\ started = 0

\* One call of isUserSubscribed(userId); the request keeps the reply of the
\* billing service (outcome) and what the store did (dbResult) beside the value.
CallIsUserSubscribed(r) ==
  /\ req[r].kind = "subscription" /\ req[r].pc = "idle"
  /\ \E stripe \in StripeReplies, store \in StoreStates :
       LET res == isUserSubscribed(users, req[r].user, stripe, store)
       IN  /\ users' = res.table
           /\ Set(r, [req[r] EXCEPT !.pc = "done", !.isSubscribed = res.value,
                                    !.outcome = stripe, !.dbResult = store])
  /\ UNCHANGED <<chats, apiKey, sessionFiles, userConversations, userSelectedModel, heap,
                 wire, started>>

NextSubscription == \E r \in Slots : CallIsUserSubscribed(r)
SpecSubscription == InitSubscription /\ [][NextSubscription]_vars

\* ------------------------------------------- the image utilities on their own
\* Lists of up to MaxFiles uploaded files: sizes in MiB on both sides of the two
\* ceilings, on disk or not, images and one text type. The name is the position.
MaxFiles == 2
FileSizes == {10, 11, 20, 21}
FileNames == <<"a", "b", "c", "d">>
FileLists ==
  UNION {{[i \in 1..n |-> [name |-> FileNames[i], mimetype |-> c[i][1], size |-> c[i][2],
                           onDisk |-> c[i][3]]] :
            c \in [1..n -> {"image/png", "text/plain"} \X FileSizes \X BOOLEAN]} :
         n \in 0..MaxFiles}

\* The targets prepareImagesForModel is written for, and the Gemini adapter's own
\* encoder.
ImageTargets == {"claude", "openai", "grok", "gemini"}
ImagePaths == ImageTargets \cup {"geminiService"}

InitImages ==
  /\ users \in UserTables /\ chats = ChatTable({}, NoRow) /\ apiKey = ValidKeys
  /\ sessionFiles = [s \in Sessions |-> NoFiles]
  /\ userConversations = [s \in Sessions |-> 0]
  /\ userSelectedModel = [s \in Sessions |-> NoModel]
  /\ heap = [a \in ArrayIds |-> <<>>]
  /\ \E fs \in FileLists, t \in ImagePaths :
       req = [r \in Slots |-> [IdleReq EXCEPT !.kind = "images", !.files = fs,
                                              !.provider = t]]
  /\ wire = [r \in Slots |-> <<>>]
  /\ started = 0

\* The call: prepareImagesForModel(imageFiles, target) as the handlers make it
\* (server.js 419, 445, 471, 784, 816, 848), processImagesForGemini(imageFiles) as
\* the Gemini adapter makes it.
PrepareImages(r) ==
  /\ req[r].kind = "images" /\ req[r].pc = "idle"
  /\ LET q == req[r]
         imageContents == IF q.provider = "geminiService"
                            THEN processImagesForGemini(SelectSeq(q.files, isImage))
                          ELSE prepareImagesForModel(q.files, q.provider)
     IN  Set(r, [q EXCEPT !.pc = "images", !.messages = imageContents])
  /\ UNCHANGED <<shared, wire, started>>

\* The caller keeps what is not null.
FilterImages(r) ==
  /\ req[r].kind = "images" /\ req[r].pc = "images"
  /\ Set(r, [req[r] EXCEPT !.pc = "done", !.messages = validContents(@)])
  /\ UNCHANGED <<shared, wire, started>>

NextImages == \E r \in Slots : PrepareImages(r) \/ FilterImages(r)
SpecImages == InitImages /\ [][NextImages]_vars

\* ------------------------------------------------- the adapters' alias tables
\* table[modelName] of a JavaScript object: the entry, or "" for undefined.
CLAUDE_MODEL_MAPPING(modelName) ==
  CASE modelName = "claude-3-5-sonnet" -> "claude-3-5-sonnet-20240620"
    [] modelName = "claude-3-7-sonnet" -> "claude-3-7-sonnet-20250219"
    [] modelName = "claude-3-opus" -> "claude-3-opus-20240229"
    [] modelName = "claude-3-haiku" -> "claude-3-5-haiku-20240307"
    [] OTHER -> ""

GROK_MODEL_MAPPING(modelName) ==
  CASE modelName = "grok-1" -> "grok-1"
    [] modelName = "grok-2" -> "grok-2-latest"
    [] modelName = "grok-2-latest" -> "grok-2-latest"
    [] modelName = "grok" -> "grok-2-latest"
    [] OTHER -> ""

GEMINI_MODEL_MAPPING(modelName) ==
  CASE modelName = "gemini-pro" -> "gemini-pro"
    [] modelName = "gemini-pro-vision" -> "gemini-pro-vision"
    [] modelName = "gemini-2.0-flash" -> "gemini-2.0-flash"
    [] modelName = "gemini-flash" -> "gemini-2.0-flash"
    [] modelName = "gemini-2.0-pro" -> "gemini-2.0-pro"
    [] OTHER -> ""

DEEPSEEK_MODEL_MAPPING(modelName) ==
  CASE modelName = "deepseek-r1" -> "deepseek-reasoner"
    [] modelName = "deepseek" -> "deepseek-chat"
    [] modelName = "deepseek-chat" -> "deepseek-chat"
    [] OTHER -> ""

\* a || b on strings
orElse(a, b) == IF a # "" THEN a ELSE b

getClaudeModelName(modelName) ==
  IF includes(modelName, "-202") THEN modelName
  ELSE orElse(CLAUDE_MODEL_MAPPING(modelName), "claude-3-5-sonnet-20240620")

getGrokModelName(modelName) == orElse(GROK_MODEL_MAPPING(modelName), "grok-2-latest")

getCurrentGeminiModel(modelName) == orElse(GEMINI_MODEL_MAPPING(modelName), "gemini-pro")

getDeepseekModelName(modelName) == orElse(DEEPSEEK_MODEL_MAPPING(modelName), "deepseek-chat")

\* The resolution of one adapter.
resolveModel(adapter, modelName) ==
  CASE adapter = "claude" -> getClaudeModelName(modelName)
    [] adapter = "grok" -> getGrokModelName(modelName)
    [] adapter = "gemini" -> getCurrentGeminiModel(modelName)
    [] OTHER -> getDeepseekModelName(modelName)

AliasAdapters == {"claude", "grok", "gemini", "deepseek"}

\* The keys of the four tables, what they map to, and ids no table has: other
\* providers' ids, another letter case, a dated Claude id that is no table's value.
TableKeys ==
  [claude |-> {"claude-3-5-sonnet", "claude-3-7-sonnet", "claude-3-opus", "claude-3-haiku"},
   grok |-> {"grok-1", "grok-2", "grok-2-latest", "grok"},
   gemini |-> {"gemini-pro", "gemini-pro-vision", "gemini-2.0-flash", "gemini-flash",
               "gemini-2.0-pro"},
   deepseek |-> {"deepseek-r1", "deepseek", "deepseek-chat"}]
ModelNames ==
  UNION {TableKeys[a] : a \in AliasAdapters}
  \cup {"claude-3-5-sonnet-20240620", "claude-3-7-sonnet-20250219", "claude-3-opus-20240229",
        "claude-3-5-haiku-20240307", "deepseek-reasoner"}
  \cup {"gpt-3.5-turbo", "GPT-4", "Claude-3-Opus", "claude-4-20250514", "grok-3", "gemini-ultra",
        "deepseek-v3"}

\* One adapter is about to resolve one model name.
InitModels ==
  /\ users \in UserTables /\ chats = ChatTable({}, NoRow) /\ apiKey = ValidKeys
  /\ sessionFiles = [s \in Sessions |-> NoFiles]
  /\ userConversations = [s \in Sessions |-> 0]
  /\ userSelectedModel = [s \in Sessions |-> NoModel]
  /\ heap = [a \in ArrayIds |-> <<>>]
  /\ \E a \in AliasAdapters, m \in ModelNames :
       req = [r \in Slots |-> [IdleReq EXCEPT !.kind = "resolve", !.provider = a, !.model = m]]
  /\ wire = [r \in Slots |-> <<>>]
  /\ started = 0

\* The adapter resolves the name it was called with
\* (claudeService.js 129, 379; geminiService.js 77; deepseekService.js 40).
ResolveModel(r) ==
  /\ req[r].kind = "resolve" /\ req[r].pc = "idle"
  /\ Set(r, [req[r] EXCEPT !.pc = "resolved",
                           !.messages = <<resolveModel(req[r].provider, req[r].model)>>])
  /\ UNCHANGED <<shared, wire, started>>

\* The adapter is called again, with the id the first resolution returned.
ResolveAgain(r) ==
  /\ req[r].kind = "resolve" /\ req[r].pc = "resolved"
  /\ Set(r, [req[r] EXCEPT !.pc = "done",
                           !.messages = Append(@, resolveModel(req[r].provider, @[1]))])
  /\ UNCHANGED <<shared, wire, started>>

NextModels == \E r \in Slots : ResolveModel(r) \/ ResolveAgain(r)
SpecModels == InitModels /\ [][NextModels]_vars

\* --------------------------------------------- the adapters' read loop alone
\* The provider's SSE stream of n content deltas, as the pieces a read can end
\* between: the field name, the JSON text in three pieces, the line end and the
\* blank line that ends the event.
MaxDeltas == 2
sseEvent(k) == <<"data: ", "{", ChunkAt(k), "}", "\n", "\n">>
RECURSIVE providerStream(_)
providerStream(n) == IF n = 0 THEN <<>> ELSE providerStream(n - 1) \o sseEvent(n)

\* The reads reader.read() returns when the stream is cut after the positions in cuts.
RECURSIVE networkReads(_, _, _)
networkReads(stream, cuts, from) ==
  IF from > Len(stream) THEN <<>>
  ELSE LET ends == {c \in cuts : c >= from} \cup {Len(stream)}
           to == CHOOSE e \in ends : \A x \in ends : e <= x
       IN  <<SubSeq(stream, from, to)>> \o networkReads(stream, cuts, to + 1)

\* chunk.split('\n')
RECURSIVE splitLines(_, _)
splitLines(chunk, line) ==
  IF chunk = <<>> THEN <<line>>
  ELSE IF Head(chunk) = "\n" THEN <<line>> \o splitLines(Tail(chunk), <<>>)
  ELSE splitLines(Tail(chunk), Append(line, Head(chunk)))

\* The body of the loop over the lines (claudeService.js 280-297, 504-521,
\* deepseekService.js 160-177): a line that starts with "data: " is parsed, and
\* the text of its delta is the content; a line JSON.parse throws on is logged.
contentOfLine(line) ==
  IF line # <<>> /\ Head(line) = "data: "
    THEN (IF Len(line) = 4 /\ line[2] = "{" /\ line[4] = "}" THEN <<line[3]>> ELSE <<>>)
  ELSE <<>>

RECURSIVE contentOfLines(_)
contentOfLines(lines) ==
  IF lines = <<>> THEN <<>> ELSE contentOfLine(Head(lines)) \o contentOfLines(Tail(lines))

\* The content deltas one read yields, in order.
contentOfRead(chunk) == contentOfLines(splitLines(chunk, <<>>))

RECURSIVE chunkEvents(_)
chunkEvents(contents) ==
  IF contents = <<>> THEN <<>>
  ELSE <<Ev("chunk", <<Head(contents)>>)>> \o chunkEvents(Tail(contents))

ReadLoopAdapters == {"claude", "grok", "deepseek"}

\* An adapter has its response; the stream will arrive in some division into reads.
InitReads ==
  /\ users \in UserTables /\ chats = ChatTable({}, NoRow) /\ apiKey = ValidKeys
  /\ sessionFiles = [s \in Sessions |-> NoFiles]
  /\ userConversations = [s \in Sessions |-> 0]
  /\ userSelectedModel = [s \in Sessions |-> NoModel]
  /\ heap = [a \in ArrayIds |-> <<>>]
  /\ \E a \in ReadLoopAdapters, n \in 1..MaxDeltas :
       \E cuts \in SUBSET (1..(Len(providerStream(n)) - 1)) :
         req = [r \in Slots |->
                  [IdleReq EXCEPT !.kind = "reads", !.provider = a, !.pc = "reading",
                                  !.sse = TRUE, !.userContent = ReplyText(n),
                                  !.messages = networkReads(providerStream(n), cuts, 1)]]
  /\ wire = [r \in Slots |-> <<>>]
  /\ started = 0

\* One reader.read() returns: its lines are gone through.
ReadStream(r) ==
  /\ req[r].kind = "reads" /\ req[r].pc = "reading" /\ req[r].messages # <<>>
  /\ LET contents == contentOfRead(Head(req[r].messages))
     IN  /\ Write(r, chunkEvents(contents))
         /\ Set(r, [req[r] EXCEPT !.messages = Tail(@),
                                  !.completeResponse = accumulate(@, contents)])
  /\ UNCHANGED <<shared, started>>

\* reader.read() reports the end: the done event and res.end().
ReadDone(r) ==
  /\ req[r].kind = "reads" /\ req[r].pc = "reading" /\ req[r].messages = <<>>
  /\ Write(r, adapterDoneEvents)
  /\ Set(r, [req[r] EXCEPT !.pc = "done", !.ended = TRUE])
  /\ UNCHANGED <<shared, started>>

NextReads == \E r \in Slots : ReadStream(r) \/ ReadDone(r)
SpecReads == InitReads /\ [][NextReads]_vars

\* ------------------------------------------------------ the client's reload
\* loadChatHistory, chat.js 373-394: the messages of the row that reach the page
\* and the client's history; one without a role or without content is skipped.
loadChatHistory(messages) ==
  SelectSeq(messages, LAMBDA message : message.role # "" /\ message.content # <<>>)


\* =================================================================== claims
Last(seq) == seq[Len(seq)]
Turns == {"chat", "stream"}
HasDone(w) == \E i \in 1..Len(w) : w[i].type = "done"

\* The text of the chunk events of a response, in the order written.
RECURSIVE ChunkText(_)
ChunkText(w) ==
  IF w = <<>> THEN <<>>
  ELSE (IF Head(w).type = "chunk" THEN Head(w).data ELSE <<>>) \o ChunkText(Tail(w))

\* C1: on the streaming endpoint, once the SSE headers are set, a request writes
\* exactly one terminal event ({done} or {error}) and nothing after it, whatever
\* the provider branch and the kind of failure.
C1_ExactlyOneTerminalEvent ==
  \A r \in Slots :
    req[r].sse =>
      /\ \A i \in 1..Len(wire[r]) : IsTerminal(wire[r][i]) => i = Len(wire[r])
      /\ req[r].pc = "done" => Len(wire[r]) > 0 /\ IsTerminal(Last(wire[r]))

\* C2: in a successful streaming turn the chunk events written to the client,
\* concatenated in the order written, are the text handed to the completion
\* handler, the assistant message appended to the in-memory history and the
\* assistant message of the durable row the turn writes.
C2_StreamedTextIsStoredText ==
  [][\A r \in Slots :
       req[r].kind = "stream" =>
         /\ (req[r].pc = "complete" /\ req'[r].pc = "dbwrite") =>
               /\ req[r].completeResponse = ChunkText(wire[r])
               /\ Last(heap'[req[r].conv]) = Msg("assistant", ChunkText(wire[r]))
         /\ (req[r].pc = "dbwrite" /\ req'[r].pc = "done" /\ chats' # chats) =>
               Last(chats'[req[r].sessionId].messages) = Msg("assistant", ChunkText(wire[r]))
    ]_vars

\* A streaming turn of two deltas is over and its row is written.
C2_Witness ==
  \E r \in Slots :
    /\ req[r].kind = "stream" /\ req[r].pc = "done" /\ req[r].outcome = "ok"
    /\ req[r].provider # "gemini" /\ req[r].dbResult = "ok"
    /\ Len(ChunkText(wire[r])) >= 2

\* C3: every history in userConversations is non-empty, starts with the system
\* message and holds no other system message, after any sequence of one-shot
\* requests, streaming requests and deletes.
C3_SystemMessageFirstAndOnly ==
  \A s \in Sessions :
    userConversations[s] # 0 =>
      LET history == heap[userConversations[s]]
      IN  /\ Len(history) >= 1
          /\ history[1].role = "system"
          /\ \A i \in 2..Len(history) : history[i].role # "system"

\* A session has taken two turns.
C3_Witness ==
  \E s \in Sessions :
    /\ userConversations[s] # 0
    /\ started = MaxRequests
    /\ Len(heap[userConversations[s]]) >= 5
    /\ \A r \in Slots : req[r].pc = "idle"

\* The model ids that contain gpt-4, claude, grok or deepseek in any letter case.
PremiumMarked == {"GPT-4", "claude-3-opus", "grok-2", "deepseek-chat"}

\* C4: a request whose selected model id contains a premium marker in any letter
\* case and whose subscription check returned unsubscribed is rejected on both
\* endpoints whatever the quota state; no adapter is invoked and no durable row
\* written for it.
C4_PremiumNeedsSubscription ==
  \A r \in Slots :
    LET q == req[r]
    IN  ( /\ q.kind \in Turns
          /\ q.pc \notin {"idle", "auth", "sub"}
          /\ ~q.isSubscribed
          /\ (q.model \in PremiumMarked \/ q.selectedModel \in PremiumMarked) ) =>
          /\ q.pc \notin {"dispatch", "streaming", "complete", "dbwrite"}
          /\ "provider" \notin q.steps /\ "db" \notin q.steps
          /\ q.pc = "done" =>
               q.outcome \in {"premium_required", "quota_new_chat", "quota_messages"}

\* A free user's request for GPT-4 (upper case) is turned away at the premium gate.
C4_Witness ==
  \E r \in Slots :
    /\ req[r].kind \in Turns /\ req[r].pc = "done"
    /\ req[r].selectedModel = "GPT-4" /\ ~req[r].isSubscribed
    /\ req[r].outcome = "premium_required"

\* C5: an unsubscribed user with three chats on file who sends a request on a
\* sessionId without a durable record of theirs is rejected with the new-chat
\* quota on both endpoints, before any adapter is invoked and without a durable
\* row being written.
C5_NewChatQuota ==
  [][\A r \in Slots :
       ( /\ req[r].pc = "count" /\ req'[r].pc # "count"
         /\ ~req[r].isSubscribed /\ ~req[r].existingChat.found
         /\ countChats(chats, req[r].user) >= 3 ) =>
         /\ req'[r].pc = "done" /\ req'[r].outcome = "quota_new_chat"
         /\ req'[r].steps = {}
         /\ chats' = chats
    ]_vars

\* The count query of a free user's new chat has found three chats.
C5_Witness ==
  \E r \in Slots :
    /\ req[r].kind \in Turns /\ req[r].pc = "done" /\ req[r].outcome = "quota_new_chat"
    /\ ~req[r].isSubscribed /\ ~req[r].existingChat.found
    /\ countChats(chats, req[r].user) = 3

\* The request has passed the quota checks' queries.
PastQuota(q) == q.kind \in Turns /\ q.pc \notin {"idle", "auth", "sub", "existing", "count"}

\* C6 as stated: an unsubscribed user whose existing chat has 20 stored messages
\* in its durable record, built by the server's own turns, is refused one more
\* turn with the per-chat quota.
C6_TwentyStoredMessagesRejected ==
  \A r \in Slots :
    LET q == req[r]
    IN  ( /\ PastQuota(q) /\ ~q.isSubscribed
          /\ q.existingChat.found /\ Len(q.existingChat.messages) = 20 ) =>
          q.pc = "done" /\ q.outcome = "quota_messages"

\* C6 as amended: an unsubscribed user whose existing chat has a message count of
\* 20 or more in its durable record (one per turn: 40 stored messages when the
\* server's own turns built it) is refused one more turn with the per-chat quota,
\* before any attachment step, adapter call or durable write.
C6_MessageCountQuota ==
  \A r \in Slots :
    LET q == req[r]
    IN  ( /\ PastQuota(q) /\ ~q.isSubscribed
          /\ q.existingChat.found /\ q.existingChat.message_count >= 20 ) =>
          q.pc = "done" /\ q.outcome = "quota_messages" /\ q.steps = {}

\* A free user's chat of 20 turns is refused its next turn.
C6_Witness ==
  \E r \in Slots :
    /\ req[r].pc = "done" /\ req[r].outcome = "quota_messages"
    /\ req[r].existingChat.message_count = 20
    /\ Len(req[r].existingChat.messages) = 40

\* C7: on both endpoints an access-control rejection (new-chat quota, per-chat
\* quota, premium model without subscription) is decided before any attachment
\* step of the request (file registry, reading documents, encoding images) and
\* before any provider call.
C7_RejectionBeforeAttachments ==
  \A r \in Slots :
    ( /\ req[r].pc = "done"
      /\ req[r].outcome \in {"quota_new_chat", "quota_messages", "premium_required"} ) =>
      req[r].steps \cap {"registry", "docs", "images", "provider"} = {}

\* C8 as stated: in a streaming turn the done event is written only after the
\* assistant message is appended to the in-memory history and the durable write
\* is issued.
C8_PersistedBeforeDone ==
  \A r \in Slots :
    (req[r].kind = "stream" /\ HasDone(wire[r])) => {"memory", "db"} \subseteq req[r].steps

\* C8 as amended: in a successful streaming turn, for every provider, the done
\* event is written and the response ended before the assistant message is
\* appended to the in-memory history and before the durable write is issued.
C8_DoneBeforePersisted ==
  \A r \in Slots :
    (req[r].kind = "stream" /\ req[r].steps \cap {"memory", "db"} # {}) =>
      HasDone(wire[r]) /\ req[r].ended

\* A streaming turn through the Claude adapter is over, its row written.
C8_Witness ==
  \E r \in Slots :
    /\ req[r].kind = "stream" /\ req[r].pc = "done" /\ req[r].outcome = "ok"
    /\ req[r].provider = "claude" /\ req[r].dbResult = "ok"
    /\ {"memory", "db"} \subseteq req[r].steps

\* What C9 says of the durable row of the session after the turn of request q,
\* with `before` the chats table when the write begins.
TurnOf(q) == <<Msg("user", q.userContent), Msg("assistant", q.completeResponse)>>
TurnStored(q, before, after) ==
  IF ~q.existingChat.found
    THEN after[q.sessionId] = Row(q.user, TurnOf(q), 1)
  ELSE /\ after[q.sessionId].present /\ after[q.sessionId].user_id = q.user
       /\ after[q.sessionId].messages = before[q.sessionId].messages \o TurnOf(q)
       /\ after[q.sessionId].message_count = before[q.sessionId].message_count + 1

\* No other request has written the session's row since this one read it.
OneAfterAnother(q) == selectChat(chats, q.sessionId, q.user) = q.existingChat

\* C9 as stated: after a successful turn, with the requests on the session run
\* one after another, the durable store holds the row [user, assistant] with
\* count 1 if the user had no record of the session when the request started,
\* and otherwise the previous messages followed by the turn's two, with the
\* previous count plus 1.
C9_TurnStored ==
  [][\A r \in Slots :
       ( /\ req[r].pc = "dbwrite" /\ req'[r].pc = "done" /\ req'[r].outcome = "ok"
         /\ OneAfterAnother(req[r]) ) =>
         TurnStored(req[r], chats, chats')
    ]_vars

\* C9 as amended: the same, for a turn whose durable write succeeds; a turn whose
\* write fails leaves the chats table as it was.
C9_TurnStoredWhenWritten ==
  [][\A r \in Slots :
       ( /\ req[r].pc = "dbwrite" /\ req'[r].pc = "done" /\ req'[r].outcome = "ok"
         /\ OneAfterAnother(req[r]) ) =>
         IF req'[r].dbResult = "ok" THEN TurnStored(req[r], chats, chats')
         ELSE chats' = chats
    ]_vars

\* A second turn on a session has added its two messages to the row of the first.
C9_Witness ==
  \E r \in Slots :
    /\ req[r].kind \in Turns /\ req[r].pc = "done" /\ req[r].dbResult = "ok"
    /\ req[r].existingChat.found /\ req[r].existingChat.message_count = 1
    /\ chats[req[r].sessionId].message_count = 2
    /\ Len(chats[req[r].sessionId].messages) = 4

\* C10: when the client aborts a stream in flight, no chunk is written for the
\* request after the abort, and the response-body reader is closed.
C10_AbortStopsStream ==
  \A r \in Slots :
    req[r].abortAt # -1 =>
      /\ \A i \in (req[r].abortAt + 1)..Len(wire[r]) : wire[r][i].type # "chunk"
      /\ Len(wire[r]) > req[r].abortAt => ~req[r].readerOpen

\* The credential of the provider is absent or not one the provider's check takes.
Unconfigured(provider) == apiKey[provider] # ValidKeys[provider]

\* C11: a request dispatched to a provider whose credential is absent or fails the
\* provider's isConfigured check makes no network call to the provider, ends with
\* an error, and adds no assistant message to the in-memory history or the
\* durable store.
C11_UnconfiguredProviderNotCalled ==
  [][\A r \in Slots :
       ( /\ req[r].pc = "dispatch" /\ req'[r].pc # "dispatch"
         /\ Unconfigured(req[r].provider) ) =>
         /\ req'[r].pc = "done" /\ req'[r].outcome = "config_error"
         /\ "provider" \notin req'[r].steps
         /\ Last(wire'[r]).type \in {"error", "json"} /\ ~HasDone(wire'[r])
         /\ heap' = heap /\ chats' = chats
    ]_vars

\* A streaming request for a Claude model has met a missing Claude key.
C11_Witness ==
  \E r \in Slots :
    /\ req[r].kind = "stream" /\ req[r].pc = "done" /\ req[r].provider = "claude"
    /\ Unconfigured("claude") /\ req[r].outcome = "config_error"

\* C12: a DELETE of a session by an authenticated caller who does not own it
\* leaves the session as it was: its durable row, its in-memory history, its
\* selected model and its file registry.
C12_ForeignDeleteChangesNothing ==
  [][\A r \in Slots :
       LET sid == req[r].sessionId
       IN  ( /\ req[r].pc = "delete" /\ req'[r].pc = "done"
             /\ chats[sid].present /\ chats[sid].user_id # req[r].user ) =>
             /\ chats'[sid] = chats[sid]
             /\ userConversations'[sid] = userConversations[sid]
             /\ userSelectedModel'[sid] = userSelectedModel[sid]
             /\ sessionFiles'[sid] = sessionFiles[sid]
    ]_vars

\* The session has no durable row and no in-memory entry.
SessionGone(s) ==
  /\ ~chats[s].present
  /\ userConversations[s] = 0 /\ userSelectedModel[s] = NoModel /\ ~sessionFiles[s].has

\* The delete request in slot d has returned success and no request has started
\* since it arrived.
DeleteReturned(d) ==
  /\ req[d].kind = "delete" /\ req[d].pc = "done" /\ req[d].outcome = "ok"
  /\ started = req[d].id

\* C13: once the owner's DELETE of a session has returned success, the session
\* has no durable row and no in-memory entry (history, selected model, file
\* registry), and stays so until a chat request started after the delete
\* refers to it, also when a chat request on the session was in flight while
\* the delete ran.
C13_DeletedStaysDeleted ==
  [][\A d \in DOMAIN req :
       /\ (req[d].pc = "delete" /\ req'[d].pc = "done" /\ req'[d].outcome = "ok"
             /\ chats[req[d].sessionId].present
             /\ chats[req[d].sessionId].user_id = req[d].user) =>
            SessionGone(req[d].sessionId)'
       /\ (DeleteReturned(d) /\ DeleteReturned(d)' /\ SessionGone(req[d].sessionId)) =>
            SessionGone(req[d].sessionId)'
    ]_vars

UserTextBeforeLast(msgs) ==
  /\ Len(msgs) >= 2
  /\ msgs[Len(msgs) - 1].role = "user" /\ msgs[Len(msgs) - 1].content # <<>>

\* C16: a request with an empty message and at least one attachment is not
\* rejected for lack of text, and the user message of its turn is non-empty in
\* what is dispatched to the provider, in the in-memory history and in the
\* durable row.
C16_EmptyMessageCoerced ==
  [][\A r \in DOMAIN req :
       LET q == req'[r]
       IN  (q # req[r] /\ q.kind \in Turns /\ q.message = <<>> /\ q.files # <<>>) =>
             /\ q.outcome # "bad_request"
             /\ q.pc = "dispatch" => dispatchedText(q) # <<>>
             /\ q.pc = "dbwrite" => UserTextBeforeLast(heap'[q.conv])
             /\ (req[r].pc = "dbwrite" /\ chats' # chats) =>
                  UserTextBeforeLast(chats'[q.sessionId].messages)
    ]_vars

\* C17: a streaming request with a text message and image attachments none of
\* which can be processed still goes to the provider with its text: the failure
\* of the attachments alone does not end it.
C17_TextSurvivesLostImages ==
  \A r \in DOMAIN req :
    LET q == req[r]
        imageFiles == SelectSeq(q.files, isImage)
    IN  ( /\ q.kind = "stream" /\ trim(q.message) # <<>>
          /\ Len(imageFiles) > 0
          /\ \A i \in 1..Len(imageFiles) : ~imageFiles[i].onDisk ) =>
          q.outcome # "attachment_error"

\* C18: when the durable insert or update fails after a successful generation
\* the turn still succeeds: the one-shot endpoint answers with the reply, the
\* streaming endpoint's only terminal event is done with no error event, and the
\* in-memory history has gained the assistant message.
C18_WriteFailureAbsorbed ==
  [][\A r \in DOMAIN req :
       LET q == req'[r]
       IN  (req[r].pc = "dbwrite" /\ q.pc = "done" /\ q.dbResult = "error") =>
             /\ chats' = chats
             /\ q.outcome = "ok"
             /\ \A i \in 1..Len(wire'[r]) : wire'[r][i].type # "error"
             /\ q.kind = "chat" =>
                  wire'[r] = <<Ev("json", <<"reply">> \o q.completeResponse)>>
             /\ q.kind = "stream" =>
                  /\ Last(wire'[r]).type = "done"
                  /\ Cardinality({i \in 1..Len(wire'[r]) : IsTerminal(wire'[r][i])}) = 1
             /\ Last(heap'[q.conv]) = Msg("assistant", q.completeResponse)
    ]_vars

\* A streamed turn on an existing chat has ended although its update failed.
C18_Witness ==
  \E r \in DOMAIN req :
    /\ req[r].kind = "stream" /\ req[r].pc = "done" /\ req[r].dbResult = "error"
    /\ req[r].existingChat.found /\ req[r].outcome = "ok" /\ HasDone(wire[r])
    /\ chats[req[r].sessionId].messages = req[r].existingChat.messages

\* The names of the entries of a list, in order.
RECURSIVE NamesOf(_)
NamesOf(seq) == IF seq = <<>> THEN <<>> ELSE <<Head(seq).name>> \o NamesOf(Tail(seq))

\* A file prepareImagesForModel cannot take for a target: it is not on disk, or
\* it is over the size a check on the target's path allows.
Unreadable(f) == ~f.onDisk
OverCeiling(f, target) == f.size > imageLimit(target)
OverDataURL(f, target) == target \in {"openai", "grok"} /\ f.size > DataURLLimit

ProviderCeiling(path) == IF path \in {"claude", "gemini", "geminiService"} THEN 10 ELSE 20

\* C20: on every path that encodes images for a provider, a readable image is
\* in the request iff its size is at most the provider's ceiling: 10 MiB for
\* Gemini and Claude, 20 MiB for OpenAI-compatible models and Grok.
C20_IncludedIffWithinCeiling ==
  \A r \in DOMAIN req :
    LET q == req[r]
        images == SelectSeq(q.files, isImage)
    IN  (q.kind = "images" /\ q.pc = "done") =>
          \A i \in 1..Len(images) :
            images[i].onDisk =>
              ( (\E j \in 1..Len(q.messages) : q.messages[j].name = images[i].name)
                <=> images[i].size <= ProviderCeiling(q.provider) )

\* C21: for Gemini, the provider without native streaming, a successful
\* streaming turn writes exactly one chunk event, whose text is the whole result
\* of the blocking call, immediately followed by the done event; a failed call
\* writes no chunk and exactly one error event.
C21_GeminiSimulatedStream ==
  \A r \in DOMAIN req :
    LET q == req[r]
    IN  (q.kind = "stream" /\ q.provider = "gemini") =>
          /\ (q.pc \in {"complete", "dbwrite"} \/ (q.pc = "done" /\ q.outcome = "ok")) =>
                wire[r] = <<Ev("chunk", q.completeResponse), Ev("done", <<>>)>>
          /\ (q.pc = "done" /\ q.outcome \in {"provider_error", "config_error"}) =>
                /\ Len(wire[r]) = 1 /\ wire[r][1].type = "error"
                /\ q.completeResponse = <<>>

\* A Gemini turn whose reply has more than one piece has been delivered and stored.
C21_Witness ==
  \E r \in DOMAIN req :
    /\ req[r].kind = "stream" /\ req[r].provider = "gemini" /\ req[r].pc = "done"
    /\ req[r].outcome = "ok" /\ Len(req[r].completeResponse) = MaxChunks
    /\ Len(wire[r]) = 2

\* The default of each adapter, as its code documents it.
DefaultOf(adapter) ==
  CASE adapter = "claude" -> "claude-3-5-sonnet-20240620"
    [] adapter = "grok" -> "grok-2-latest"
    [] adapter = "gemini" -> "gemini-pro"
    [] OTHER -> "deepseek-chat"

\* C22: for each adapter with an alias table, resolution is total: a name that is
\* not in the table gives the adapter's default, and resolving an id that
\* resolution returned gives that id again.
C22_ResolutionTotalAndIdempotent ==
  \A r \in DOMAIN req :
    LET q == req[r]
    IN  (q.kind = "resolve" /\ q.pc \in {"resolved", "done"}) =>
          /\ q.messages[1] # ""
          /\ q.model \notin TableKeys[q.provider] => q.messages[1] = DefaultOf(q.provider)
          /\ q.pc = "done" => q.messages[2] = q.messages[1]

\* The provider markers of the premium check.
ProviderMarkers == {"claude", "grok", "deepseek"}

\* C23: adapter selection matches the markers as the premium check does: a model
\* id the premium check attributes to the marker claude, grok or deepseek,
\* whatever its letter case, is dispatched to that provider's adapter, and every
\* id goes to exactly one adapter, an id with no marker to the OpenAI adapter.
C23_AdapterFollowsMarker ==
  \A r \in DOMAIN req :
    LET q == req[r]
        modelName == toLowerCase(q.selectedModel)
    IN  (q.kind \in Turns /\ q.provider # "") =>
          /\ q.provider \in {"gemini", "claude", "grok", "deepseek", "openai"}
          /\ q.provider = adapterFor(q.selectedModel)
          /\ \A m \in ProviderMarkers : includes(modelName, m) => q.provider = m
          /\ (\A m \in ProviderMarkers \cup {"gemini"} : ~includes(modelName, m)) =>
                q.provider = "openai"

\* The role/content pairs of a message list, in order.
RECURSIVE Pairs(_)
Pairs(msgs) ==
  IF msgs = <<>> THEN <<>>
  ELSE <<<<Head(msgs).role, Head(msgs).content>>>> \o Pairs(Tail(msgs))

\* C24: reloading a session's message list from the durable store gives the
\* role/content pairs the server persisted, in the same order, none dropped or
\* altered, also for a turn whose user text is empty because only images came.
C24_ReloadRoundTrip ==
  \A s \in Sessions :
    chats[s].present => Pairs(loadChatHistory(chats[s].messages)) = Pairs(chats[s].messages)

\* C25: in the Claude, Grok and Deepseek streaming adapters, however the
\* provider's stream is divided into reads, every content delta is forwarded as a
\* chunk event once and in order: the forwarded chunks together are the deltas
\* the provider sent.
C25_EveryDeltaForwarded ==
  \A r \in DOMAIN req :
    (req[r].kind = "reads" /\ req[r].pc = "done") =>
      /\ ChunkText(wire[r]) = req[r].userContent
      /\ req[r].completeResponse = req[r].userContent

\* C26: a successful streaming turn with non-empty user content extends the
\* session's in-memory history by exactly two messages, the user message of the
\* turn and then the assistant message, whatever the history holds already.
C26_TurnAddsUserAndAssistant ==
  [][\A r \in DOMAIN req :
       LET q == req[r]
       IN  ( /\ q.kind = "stream" /\ q.pc = "complete" /\ req'[r].pc = "dbwrite"
             /\ q.userContent # <<>> ) =>
             heap'[q.conv] = heap[q.conv] \o TurnOf(q)
    ]_vars

\* The messages of earlier turns as the adapter is to see them when a request
\* is dispatched: the streaming handler rebuilds the list from the history, to
\* which it has added nothing yet; the one-shot handler has pushed the user
\* message of the turn to the history already.
EarlierMessages(q, history) ==
  IF q.kind = "stream" THEN historyForProvider(history)
  ELSE SubSeq(history, 1, Len(history) - 1)

\* C27: when at least one image of the request was encoded for Claude, OpenAI
\* or Grok, the list dispatched to the adapter is the messages of the earlier
\* turns, unchanged, followed by one user message for this turn: the prompt
\* text, then the image parts in upload order.
C27_OneMultiPartMessage ==
  [][\A r \in DOMAIN req :
       LET q == req'[r]
       IN  ( /\ q.kind \in Turns /\ req[r].pc # "dispatch" /\ q.pc = "dispatch"
             /\ q.messages # <<>> /\ Last(q.messages).images # <<>> ) =>
             /\ Last(q.messages).role = "user"
             /\ Last(q.messages).content # <<>>
             /\ q.userContent # <<>> => Last(q.messages).content = q.userContent
             /\ NamesOf(Last(q.messages).images) =
                  NamesOf(SelectSeq(q.files, LAMBDA f : isImage(f) /\ f.onDisk))
             /\ SubSeq(q.messages, 1, Len(q.messages) - 1) = EarlierMessages(q, heap'[q.conv])
    ]_vars

\* The two requests of the side-by-side run are answered, and the provider, where
\* it was asked, gave both the same reply.
GotReply(q) == q.outcome = "ok"
Refused(q) == q.pc = "done" /\ "provider" \notin q.steps
SameProviderReply ==
  /\ req[1].pc = "done" /\ req[2].pc = "done"
  /\ req[1].outcome # "provider_error" /\ req[2].outcome # "provider_error"
  /\ (GotReply(req[1]) /\ GotReply(req[2])) =>
        /\ req[1].completeResponse = req[2].completeResponse
        /\ req[1].dbResult = "ok" /\ req[2].dbResult = "ok"

\* The in-memory history of a session, <<>> when it has none.
HistoryOf(s) == IF userConversations[s] = 0 THEN <<>> ELSE heap[userConversations[s]]

\* C28: the one-shot endpoint is the non-incremental equivalent of the streaming
\* endpoint: from the same session state, for the same request and the same
\* provider reply, both accept or both refuse, and both leave the same
\* in-memory history, the same selected model and the same durable record.
C28_EndpointsEquivalent ==
  SameProviderReply =>
    /\ Refused(req[1]) <=> Refused(req[2])
    /\ Pairs(HistoryOf("s1")) = Pairs(HistoryOf("s2"))
    /\ userSelectedModel["s1"] = userSelectedModel["s2"]
    /\ chats["s1"] = chats["s2"]

\* C29: a provider response that is not 2xx, or that is 2xx without the reply
\* text, ends in an error and never in a successful reply: what is returned and
\* persisted as the assistant message is text the provider produced.
C29_OnlyProviderTextIsReplied ==
  \A r \in DOMAIN req :
    LET q == req[r]
    IN  ( /\ q.kind \in Turns
          /\ q.pc \in {"complete", "dbwrite"} \/ (q.pc = "done" /\ q.outcome = "ok") ) =>
          q.completeResponse \in Replies

\* A call of isUserSubscribed by request r returns in this step, for a user whose
\* profile was read.
Returns(r) == req[r].kind = "subscription" /\ req[r].pc = "idle" /\ req'[r].pc = "done"
ProfileRead(r) ==
  req[r].user \in DOMAIN users /\ req'[r].dbResult # "read_error"
BillingAnswered(r) ==
  /\ ProfileRead(r) /\ users[req[r].user].stripe_subscription_id # ""
  /\ req'[r].outcome # "error"

\* What C30 says of the lookup that fails and of the profile that cannot be read:
\* the flag on file is returned and left as it is; false is returned.
SubscriptionFallbacks(r) ==
  /\ ( /\ ProfileRead(r) /\ users[req[r].user].stripe_subscription_id # ""
       /\ req'[r].outcome = "error" ) =>
       /\ req'[r].isSubscribed = users[req[r].user].is_subscribed
       /\ users' = users
  /\ ~ProfileRead(r) => (~req'[r].isSubscribed /\ users' = users)

\* C30 as stated: with a billing subscription id on file and a successful lookup
\* isUserSubscribed returns true exactly for the status active or trialing, and
\* on its return the durable flag equals the value returned; on a failed lookup
\* it returns the durable flag and leaves it; it returns false when the profile
\* cannot be read.
C30_FlagEqualsReturnedValue ==
  [][\A r \in DOMAIN req :
       Returns(r) =>
         /\ BillingAnswered(r) =>
              /\ req'[r].isSubscribed <=> req'[r].outcome \in {"active", "trialing"}
              /\ users'[req[r].user].is_subscribed = req'[r].isSubscribed
         /\ SubscriptionFallbacks(r)
    ]_vars

\* C30, amended: as stated, but the durable flag equals the value returned when
\* the update that reconciles it goes through; when that update fails the flag
\* is left as it was and the value returned is still the billing status.
C30_FlagReconciledWhenUpdateSucceeds ==
  [][\A r \in DOMAIN req :
       Returns(r) =>
         /\ BillingAnswered(r) =>
              /\ req'[r].isSubscribed <=> req'[r].outcome \in {"active", "trialing"}
              /\ req'[r].dbResult # "write_error" =>
                   users'[req[r].user].is_subscribed = req'[r].isSubscribed
              /\ req'[r].dbResult = "write_error" => users' = users
              /\ \A u \in Users \ {req[r].user} : users'[u] = users[u]
         /\ SubscriptionFallbacks(r)
    ]_vars

\* The flag said subscribed, the billing service said canceled, and the flag was
\* reconciled.
C30_Witness ==
  \E r \in DOMAIN req :
    /\ req[r].kind = "subscription" /\ req[r].pc = "done" /\ req[r].user = "u1"
    /\ req[r].outcome = "canceled" /\ req[r].dbResult = "up"
    /\ ~req[r].isSubscribed /\ ~users["u1"].is_subscribed
    /\ users["u1"].stripe_subscription_id # ""

\* The message says more of file f than its line in the list of attachments: the
\* line "- name" is followed by text about the file.
SaysMoreThanListing(text, f) ==
  \E i \in 1..(Len(text) - 2) :
    text[i] = "-" /\ text[i + 1] = f.name /\ text[i + 2] # "\n\n"

\* C31: when a document of the request cannot be read, the request is not ended
\* for it and goes on to the provider, and the user message of the turn holds a
\* text that describes the read failure of that file.
C31_UnreadableDocumentNoted ==
  \A r \in DOMAIN req :
    LET q == req[r]
    IN  (q.kind \in Turns /\ q.userContent # <<>>) =>
          \A i \in 1..Len(q.files) :
            (~isImage(q.files[i]) /\ ~q.files[i].onDisk) =>
              /\ q.outcome \notin {"attachment_error", "bad_request"}
              /\ SaysMoreThanListing(q.userContent, q.files[i])

\* C32: every streaming request that has its SSE headers set is in the end sent
\* a terminal event (done or error) and has its response ended, whichever way
\* it goes: turned away by a gate, failing on its attachments, meeting an
\* unconfigured provider, a provider error, or a complete reply.
C32_StreamEventuallyClosed ==
  \A r \in Slots :
    (req[r].sse /\ ~req[r].ended) ~>
      (req[r].sse /\ req[r].ended /\ \E i \in 1..Len(wire[r]) : IsTerminal(wire[r][i]))

\* A streaming request whose only image was gone from the disk has been answered
\* with an error event and closed.
C32_Witness ==
  \E r \in Slots :
    /\ req[r].sse /\ req[r].ended /\ req[r].outcome = "attachment_error"
    /\ wire[r] # <<>> /\ Last(wire[r]).type = "error"

\* The rejections of access control.
AccessRejections == {"quota_new_chat", "quota_messages", "premium_required"}

\* C33: a chat request that access control rejects (new-chat quota, per-chat
\* quota, premium model without subscription) leaves the session as it was
\* before the request, on both endpoints. For the first request of a run, whose
\* session had no in-memory entry before it: the session has no history, no
\* selected model and no recorded file after the rejection, and the request has
\* made no durable write.
C33_RejectionLeavesSessionAsItWas ==
  \A r \in DOMAIN req :
    LET q == req[r]
    IN  (q.kind \in Turns /\ q.id = 1 /\ q.pc = "done" /\ q.outcome \in AccessRejections) =>
          /\ userConversations[q.sessionId] = 0
          /\ userSelectedModel[q.sessionId] = NoModel
          /\ sessionFiles[q.sessionId] = NoFiles
          /\ "db" \notin q.steps

\* The failures of the provider's side of a turn.
ProviderFailures == {"provider_error", "config_error"}

\* C34: a turn that fails with a provider error or a provider-configuration
\* error leaves the in-memory history and the durable record as they were, on
\* both endpoints. For the first request of a run, whose session had no history
\* before it: after the failure the history of the session holds no user or
\* assistant message, and the request has made no durable write.
C34_FailedTurnLeavesNoMessage ==
  \A r \in DOMAIN req :
    LET q == req[r]
        history == HistoryOf(q.sessionId)
    IN  (q.kind \in Turns /\ q.id = 1 /\ q.pc = "done" /\ q.outcome \in ProviderFailures) =>
          /\ \A i \in 1..Len(history) : history[i].role = "system"
          /\ "db" \notin q.steps

\* Every request of the run was a turn of the owner on session s1, each has
\* returned with its reply, and each had its durable write accepted.
AllTurnsSucceeded ==
  /\ started = Cardinality(DOMAIN req)
  /\ \A r \in DOMAIN req :
       /\ req[r].kind \in Turns /\ req[r].sessionId = "s1" /\ req[r].pc = "done"
       /\ req[r].outcome = "ok" /\ req[r].dbResult = "ok"

\* The two messages of the turn of request q stand side by side in the list.
TurnIn(q, msgs) ==
  \E i \in 1..(Len(msgs) - 1) : Pairs(SubSeq(msgs, i, i + 1)) = Pairs(TurnOf(q))

\* C35: after N successful turns of the owner on one session, in whatever way
\* the requests interleave or overlap, the durable row of the session counts N
\* turns more than before and holds the user and assistant messages of all of
\* them.
C35_EveryTurnInTheRow ==
  AllTurnsSucceeded =>
    /\ chats["s1"].present
    /\ chats["s1"].message_count = 1 + started
    /\ Len(chats["s1"].messages) = 2 * (1 + started)
    /\ \A r \in DOMAIN req : TurnIn(req[r], chats["s1"].messages)

\* The users whose profile says unsubscribed and names no billing subscription:
\* every subscription check of theirs returns unsubscribed.
FreeUsers ==
  {u \in Users : ~users[u].is_subscribed /\ users[u].stripe_subscription_id = ""}

\* C36: a user who is unsubscribed throughout has at most 3 chat rows in the
\* durable store in every reachable state, also when requests of that user on
\* different new sessions overlap.
C36_AtMostThreeChats ==
  \A u \in FreeUsers : countChats(chats, u) <= FreeChatLimit

\* C37: for a user who is unsubscribed throughout, the message count of each of
\* the user's chat rows is at most 20 in every reachable state, also when
\* requests on the same session overlap.
C37_CountNeverOverTwenty ==
  \A c \in ChatIds :
    (chats[c].present /\ chats[c].user_id \in FreeUsers) =>
      chats[c].message_count <= FreeMessageLimit

\* Two turns of a free user on a chat of 19 turns overlapped: both passed the
\* per-chat quota, both were written, and the row counts 20.
C37_Witness ==
  /\ \A r \in DOMAIN req :
       /\ req[r].kind \in Turns /\ req[r].pc = "done" /\ req[r].dbResult = "ok"
       /\ req[r].user \in FreeUsers
       /\ req[r].existingChat.found
       /\ req[r].existingChat.message_count = FreeMessageLimit - 1
  /\ Cardinality(DOMAIN req) >= 2
  /\ chats["s1"].message_count = FreeMessageLimit

\* C38: the message list dispatched to a provider for one authenticated user
\* holds no message content that another user contributed: a request of user B
\* on a session id that user A has used does not send A's earlier turns.
C38_NoForeignContentDispatched ==
  \A r \in DOMAIN req :
    LET q == req[r]
    IN  (q.kind \in Turns /\ q.pc = "dispatch") =>
          \A i \in 1..Len(q.messages) :
            \A u \in Users \ {q.user} : q.messages[i].content # MessageOf(u)

\* C39: for every dispatched turn and every provider, what the adapter is given
\* is one system message, then every earlier user and assistant message of the
\* session's in-memory history in order, then the user message of the turn.
C39_SystemHistoryThenTurn ==
  [][\A r \in DOMAIN req :
       LET q == req'[r]
           input == adapterInput(q)
           earlier == EarlierMessages(q, heap'[q.conv])
       IN  (q.kind \in Turns /\ req[r].pc # "dispatch" /\ q.pc = "dispatch") =>
             /\ Len(input) >= 2
             /\ input[1].role = "system"
             /\ \A i \in 2..Len(input) : input[i].role # "system"
             /\ Pairs(SubSeq(input, 1, Len(input) - 1)) = Pairs(earlier)
             /\ Last(input).role = "user"
    ]_vars

====
